---- MODULE Spec2Model ----
(***************************************************************************)
(* A model of the reference walker (turms/referencer.py) and of the        *)
(* return-type resolution of the function generator                        *)
(* (turms/plugins/funcs.py).                                               *)
(*                                                                         *)
(* Spec      : one run of create_reference_registry_from_documents over a  *)
(*             parsed document drawn from a bounded set of documents.      *)
(* SpecWalk  : one call of recurse_find_references on a field of the       *)
(*             query root, drawn from a bounded set of selection trees.    *)
(* SpecFuncs : calls of is_collapsable, get_return_type_annotation and     *)
(*             get_return_type_string on an operation drawn from a bounded *)
(*             set of operations.                                          *)
(* SpecPlugin: FuncsPlugin.generate_ast generating a function for every    *)
(*             operation of the documents and every definition of its      *)
(*             type, before or after the fragment classes are registered.  *)
(***************************************************************************)
EXTENDS Naturals, Sequences, FiniteSets, TLC

VARIABLES
    document,   \* DocumentNode handed to create_reference_registry_from_documents
    field,      \* FieldNode handed to recurse_find_references
    walked_type, \* the type handed to recurse_find_references with it
    registry,   \* the ReferenceRegistry of the run (its six sets)
    registry_before, \* the registry as it was when a register_* method was called
    registered_name, \* the type_name that method was called with
    error,      \* the exception that ended the call, NoError if none
    error_args, \* the arguments the code gave the exception it raised
    calls,      \* activations of recurse_find_references during the call
    pc          \* "start" before the call, "returned" / "raised" after it,
                \* "idle" while the specification runs the other component

refVars == <<document, field, walked_type, registry, registry_before, registered_name,
             error, error_args, calls, pc>>

VARIABLES
    o,                  \* OperationDefinitionNode handed to the functions of the
                        \* funcs plugin
    collapse,           \* the collapse argument of the return type functions
    collapse_lonely,    \* FuncsPluginConfig.collapse_lonely
    options,            \* the affixes the ClassRegistry styles class names with
    fragment_class_map, \* ClassRegistry: the fragments whose class is registered
    collapsable,        \* outcome of is_collapsable(o)
    annotation,         \* outcome of get_return_type_annotation(o, ..., collapse)
    label,              \* outcome of get_return_type_string(o, ..., collapse)
    generated           \* outcome of generate_operation_func(definition, o, ...)

funcVars == <<o, collapse, collapse_lonely, options, fragment_class_map,
              collapsable, annotation, label, generated>>

VARIABLES
    function_definition,  \* FunctionDefinition handed to generate_parameters or
                          \* to generate_operation_func
    operation_definition, \* OperationDefinitionNode handed to it
    plugin_config,        \* FuncsPluginConfig
    imports,              \* ClassRegistry: the imports registered
    parameters,           \* the ast.arguments generate_parameters returned
    documents,            \* the operations of the documents generate_ast parsed
    plugin_tree           \* generate_ast: the functions generated so far

paramVars == <<function_definition, operation_definition, plugin_config, imports,
               parameters, documents, plugin_tree>>

-----------------------------------------------------------------------------
(* Bounds                                                                   *)

\* Total number of AST nodes of a document: definitions, variable
\* definitions with their type wrappers, and selections.
MaxSize == 5

\* Number of selection nodes of the field handed to the walker, the field
\* itself included.
MaxNodes == 6

\* Number of selection nodes of an operation handed to the funcs plugin.
MaxOperationSize == 4

\* Number of variable definitions of an operation handed to
\* generate_parameters.
MaxVariables == 2

-----------------------------------------------------------------------------
(* Python values                                                            *)

\* None where a name is expected (an inline fragment without type condition).
NoName == "<None>"

NoError == "none"

-----------------------------------------------------------------------------
(* The client schema: named types by kind, and the fields of the composite *)
(* types.  GraphQLNonNull / GraphQLList wrap a type in of_type.            *)

Named(k, n) == [kind |-> k, name |-> n]
NonNull(t)  == [kind |-> "NonNull", of_type |-> t]
ListOf(t)   == [kind |-> "List", of_type |-> t]

SchemaTypes ==
    [ Query          |-> "OBJECT",
      Pet            |-> "OBJECT",
      Person         |-> "OBJECT",
      Node           |-> "INTERFACE",
      SearchResult   |-> "UNION",
      Mood           |-> "ENUM",
      String         |-> "SCALAR",
      Int            |-> "SCALAR",
      PetFilter      |-> "INPUT_OBJECT",
      OwnerFilter    |-> "INPUT_OBJECT" ]

TypeNames == DOMAIN SchemaTypes

\* GraphQLSchema.get_type: the named type, or None for a name the schema lacks.
NoneType == [kind |-> "None", name |-> NoName]

get_type(n) == IF n \in TypeNames THEN Named(SchemaTypes[n], n) ELSE NoneType

T(n) == get_type(n)

\* GraphQLObjectType.fields / GraphQLInterfaceType.fields /
\* GraphQLInputObjectType.fields: field name -> declared type.
SchemaFields ==
    [ Query        |-> [ pet     |-> NonNull(T("Pet")),
                         search  |-> ListOf(T("SearchResult")),
                         node    |-> T("Node"),
                         version |-> T("String") ],
      Pet          |-> [ name |-> T("String"),
                         mood |-> NonNull(T("Mood")) ],
      Person       |-> [ name |-> T("String"),
                         age  |-> T("Int") ],
      Node         |-> [ name |-> T("String") ],
      PetFilter    |-> [ mood  |-> T("Mood"),
                         owner |-> T("OwnerFilter") ],
      OwnerFilter  |-> [ name |-> T("String") ] ]

HasFields(t) == t.name \in DOMAIN SchemaFields

FieldNames(n) == IF n \in DOMAIN SchemaFields THEN DOMAIN SchemaFields[n] ELSE {}

\* GraphQLSchema.get_root_type(operation.operation)
RootTypes == [ query |-> "Query" ]

get_root_type(operation) ==
    IF operation \in DOMAIN RootTypes THEN T(RootTypes[operation]) ELSE NoneType

\* The named type under the NonNull / List wrappers of a declared type.
RECURSIVE NamedTypeOf(_)
NamedTypeOf(t) == IF t.kind \in {"NonNull", "List"} THEN NamedTypeOf(t.of_type) ELSE t

-----------------------------------------------------------------------------
(* AST nodes of a parsed document.  selection_set is None on a FieldNode   *)
(* without braces: has_selection_set is FALSE and selections is empty.     *)

FieldNode(n, sels) ==
    [kind |-> "Field", name |-> n, type_condition |-> NoName,
     has_selection_set |-> TRUE, selections |-> sels]

LeafFieldNode(n) ==
    [kind |-> "Field", name |-> n, type_condition |-> NoName,
     has_selection_set |-> FALSE, selections |-> <<>>]

FragmentSpreadNode(n) ==
    [kind |-> "FragmentSpread", name |-> n, type_condition |-> NoName,
     has_selection_set |-> FALSE, selections |-> <<>>]

InlineFragmentNode(tc, sels) ==
    [kind |-> "InlineFragment", name |-> NoName, type_condition |-> tc,
     has_selection_set |-> TRUE, selections |-> sels]

TypenameNode == LeafFieldNode("__typename")

\* Type nodes of variable definitions.
NamedTypeNode(n)   == [kind |-> "NamedType", name |-> n]
NonNullTypeNode(t) == [kind |-> "NonNullType", type |-> t]
ListTypeNode(t)    == [kind |-> "ListType", type |-> t]

VariableDefinitionNode(n, t) == [kind |-> "VariableDefinition", name |-> n, type |-> t]

FragmentDefinitionNode(n, tc, sels) ==
    [kind |-> "FragmentDefinition", name |-> n, operation |-> NoName,
     type_condition |-> tc, variable_definitions |-> <<>>, selections |-> sels]

OperationDefinitionNode(n, op, vars, sels) ==
    [kind |-> "OperationDefinition", name |-> n, operation |-> op,
     type_condition |-> NoName, variable_definitions |-> vars, selections |-> sels]

-----------------------------------------------------------------------------
(* ReferenceRegistry                                                        *)

EmptyRegistry ==
    [objects |-> {}, fragments |-> {}, enums |-> {}, inputs |-> {},
     scalars |-> {}, operations |-> {}]

\* A register_scalar that drops a name it is given a second time.
register_scalar_toggling(reg, type_name) ==
    [reg EXCEPT !.scalars = IF type_name \in @ THEN @ \ {type_name}
                                               ELSE @ \cup {type_name}]

\* A register_enum that files the name under `operations` as well.
register_enum_and_operation(reg, type_name) ==
    [reg EXCEPT !.enums = @ \cup {type_name}, !.operations = @ \cup {type_name}]

register_type(reg, type_name)     == [reg EXCEPT !.objects   = @ \cup {type_name}]
register_fragment(reg, type_name) == [reg EXCEPT !.fragments = @ \cup {type_name}]
register_enum(reg, type_name)     == [reg EXCEPT !.enums     = @ \cup {type_name}]
register_input(reg, type_name)    == [reg EXCEPT !.inputs    = @ \cup {type_name}]
register_scalar(reg, type_name)   == [reg EXCEPT !.scalars   = @ \cup {type_name}]

-----------------------------------------------------------------------------
(* Outcome of a call that mutates the registry: the registry it leaves,    *)
(* the exception it raised (NoError when it returned) with the arguments   *)
(* the code gave it, and the number of activations of                      *)
(* recurse_find_references the call has made.                              *)

NoArgs == <<>>

Ok(reg)        == [reg |-> reg, err |-> NoError, args |-> NoArgs, calls |-> 0]
Raise(reg, e)  == [reg |-> reg, err |-> e, args |-> NoArgs, calls |-> 0]

\* The str and the class among the arguments of an exception.
PyStr(value)  == [kind |-> "str", value |-> value]
PyType(value) == [kind |-> "type", name |-> value.kind]

\* raise Exception(message, type(graphql_type), graphql_type)
RaiseException(reg, e, message, graphql_type) ==
    [reg |-> reg, err |-> e,
     args |-> <<PyStr(message), PyType(graphql_type), graphql_type>>,
     calls |-> 0]

\* The activations of an earlier call of the same body, added to an outcome.
AddCalls(n, outcome) == [outcome EXCEPT !.calls = @ + n]

\* A call made by a statement of a loop body: an exception it raises ends
\* the caller, otherwise the caller goes on (Rest) with the registry the
\* call has left.
Then(r, Rest(_)) == IF r.err # NoError THEN r ELSE AddCalls(r.calls, Rest(r.reg))

-----------------------------------------------------------------------------
(* recurse_find_references: the selection walker.  The walker is a          *)
(* recursive procedure over the node and the declared type; each loop of   *)
(* the procedure is an operator over the index of the next child.          *)

\* What a loop body hands to the enclosing procedure: exit is TRUE when the
\* procedure is left (by a return statement or by an exception).
Continue(reg)     == [reg |-> reg, err |-> NoError, args |-> NoArgs, calls |-> 0,
                      exit |-> FALSE]
Leave(outcome)    == [reg |-> outcome.reg, err |-> outcome.err, args |-> outcome.args,
                      calls |-> outcome.calls, exit |-> TRUE]

RECURSIVE recurse_find_references(_, _, _)
RECURSIVE UnionInlineSelections(_, _, _)
RECURSIVE UnionSelections(_, _, _)
RECURSIVE InlineSelections(_, _, _)
RECURSIVE InterfaceSelections(_, _, _, _)
RECURSIVE ObjectSelections(_, _, _, _)

\* The field of an inline fragment, looked up in the type its type condition
\* names: sub_sub_node_type.fields[sub_sub_node.name.value].
InlineFieldLookup(sub_node, sub_sub_node) ==
    LET sub_sub_node_type == get_type(sub_node.type_condition)
    IN  IF ~HasFields(sub_sub_node_type) THEN "AttributeError"
        ELSE IF sub_sub_node.name \notin FieldNames(sub_sub_node_type.name) THEN "KeyError"
        ELSE NoError

\* Union branch, the loop over the selections of one inline fragment.  The
\* call on the first field that is not __typename is a return statement.
UnionInlineSelections(sub_node, j, reg) ==
    IF j > Len(sub_node.selections) THEN Continue(reg)
    ELSE IF sub_node.selections[j].kind # "Field"
      THEN UnionInlineSelections(sub_node, j + 1, reg)
    ELSE IF sub_node.type_condition = NoName
      THEN Leave(Raise(reg, "AttributeError"))
    ELSE IF sub_node.selections[j].name = "__typename"
      THEN UnionInlineSelections(sub_node, j + 1, reg)
    ELSE IF InlineFieldLookup(sub_node, sub_node.selections[j]) # NoError
      THEN Leave(Raise(reg, InlineFieldLookup(sub_node, sub_node.selections[j])))
    ELSE Leave(recurse_find_references(
                   sub_node.selections[j],
                   SchemaFields[sub_node.type_condition][sub_node.selections[j].name],
                   reg))

\* The union loop after the inline fragment at i: left if the inline
\* fragment has returned or raised, continued otherwise.
UnionAfterInline(node, i, r) ==
    IF r.exit THEN [reg |-> r.reg, err |-> r.err, args |-> r.args, calls |-> r.calls]
    ELSE AddCalls(r.calls, UnionSelections(node, i + 1, r.reg))

\* Union branch, the loop over node.selection_set.selections.
UnionSelections(node, i, reg) ==
    IF i > Len(node.selections) THEN Ok(reg)
    ELSE IF node.selections[i].kind = "FragmentSpread"
      THEN UnionSelections(node, i + 1, register_fragment(reg, node.selections[i].name))
    ELSE IF node.selections[i].kind = "InlineFragment"
      THEN UnionAfterInline(node, i, UnionInlineSelections(node.selections[i], 1, reg))
    ELSE UnionSelections(node, i + 1, reg)

\* Interface and Object branches, the loop over the selections of one inline
\* fragment: every field that is not __typename is walked.
InlineSelections(sub_node, j, reg) ==
    IF j > Len(sub_node.selections) THEN Ok(reg)
    ELSE IF sub_node.selections[j].kind # "Field"
      THEN InlineSelections(sub_node, j + 1, reg)
    ELSE IF sub_node.type_condition = NoName
      THEN Raise(reg, "AttributeError")
    ELSE IF sub_node.selections[j].name = "__typename"
      THEN InlineSelections(sub_node, j + 1, reg)
    ELSE IF InlineFieldLookup(sub_node, sub_node.selections[j]) # NoError
      THEN Raise(reg, InlineFieldLookup(sub_node, sub_node.selections[j]))
    ELSE Then(recurse_find_references(
                  sub_node.selections[j],
                  SchemaFields[sub_node.type_condition][sub_node.selections[j].name],
                  reg),
              LAMBDA reg1 : InlineSelections(sub_node, j + 1, reg1))

\* An Interface branch that passes over the fragment spreads.
RECURSIVE InterfaceSelections_skipping_spreads(_, _, _, _)
InterfaceSelections_skipping_spreads(node, graphql_type, i, reg) ==
    IF i > Len(node.selections) THEN Ok(reg)
    ELSE CASE node.selections[i].kind = "Field" ->
                 IF node.selections[i].name = "__typename"
                   THEN InterfaceSelections_skipping_spreads(node, graphql_type, i + 1, reg)
                 ELSE IF node.selections[i].name \notin FieldNames(graphql_type.name)
                   THEN Raise(reg, "KeyError")
                 ELSE Then(recurse_find_references(
                               node.selections[i],
                               SchemaFields[graphql_type.name][node.selections[i].name],
                               reg),
                           LAMBDA reg1 : InterfaceSelections_skipping_spreads(
                                             node, graphql_type, i + 1, reg1))
           [] node.selections[i].kind = "FragmentSpread" ->
                 InterfaceSelections_skipping_spreads(node, graphql_type, i + 1, reg)
           [] node.selections[i].kind = "InlineFragment" ->
                 Then(InlineSelections(node.selections[i], 1, reg),
                      LAMBDA reg1 : InterfaceSelections_skipping_spreads(
                                        node, graphql_type, i + 1, reg1))

\* Interface branch, the loop over node.selection_set.selections.
InterfaceSelections(node, graphql_type, i, reg) ==
    IF i > Len(node.selections) THEN Ok(reg)
    ELSE CASE node.selections[i].kind = "Field" ->
                 IF node.selections[i].name = "__typename"
                   THEN InterfaceSelections(node, graphql_type, i + 1, reg)
                 ELSE IF node.selections[i].name \notin FieldNames(graphql_type.name)
                   THEN Raise(reg, "KeyError")
                 ELSE Then(recurse_find_references(
                               node.selections[i],
                               SchemaFields[graphql_type.name][node.selections[i].name],
                               reg),
                           LAMBDA reg1 : InterfaceSelections(node, graphql_type, i + 1, reg1))
           [] node.selections[i].kind = "FragmentSpread" ->
                 InterfaceSelections(node, graphql_type, i + 1,
                                     register_fragment(reg, node.selections[i].name))
           [] node.selections[i].kind = "InlineFragment" ->
                 Then(InlineSelections(node.selections[i], 1, reg),
                      LAMBDA reg1 : InterfaceSelections(node, graphql_type, i + 1, reg1))

\* Object branch, the loop over node.selection_set.selections.
ObjectSelections(node, graphql_type, i, reg) ==
    IF i > Len(node.selections) THEN Ok(reg)
    ELSE CASE node.selections[i].kind = "Field" ->
                 IF node.selections[i].name = "__typename"
                   THEN ObjectSelections(node, graphql_type, i + 1, reg)
                 ELSE IF node.selections[i].name \notin FieldNames(graphql_type.name)
                   THEN Raise(reg, "KeyError")
                 ELSE Then(recurse_find_references(
                               node.selections[i],
                               SchemaFields[graphql_type.name][node.selections[i].name],
                               reg),
                           LAMBDA reg1 : ObjectSelections(node, graphql_type, i + 1, reg1))
           [] node.selections[i].kind = "FragmentSpread" ->
                 ObjectSelections(node, graphql_type, i + 1,
                                  register_fragment(reg, node.selections[i].name))
           [] node.selections[i].kind = "InlineFragment" ->
                 Then(InlineSelections(node.selections[i], 1, reg),
                      LAMBDA reg1 : ObjectSelections(node, graphql_type, i + 1, reg1))

\* A body of recurse_find_references that, having unwrapped a GraphQLNonNull,
\* walks the node once more against the type still wrapped in it.
Activation_rewrapping(node, graphql_type, reg) ==
    CASE graphql_type.kind = "UNION" ->
            IF ~node.has_selection_set THEN Raise(reg, "AttributeError")
            ELSE UnionSelections(node, 1, reg)
      [] graphql_type.kind = "INTERFACE" ->
            IF ~node.has_selection_set THEN Raise(reg, "AttributeError")
            ELSE InterfaceSelections(node, graphql_type, 1, reg)
      [] graphql_type.kind = "OBJECT" ->
            IF ~node.has_selection_set THEN Raise(reg, "AttributeError")
            ELSE ObjectSelections(node, graphql_type, 1, reg)
      [] graphql_type.kind = "SCALAR" -> Ok(register_scalar(reg, graphql_type.name))
      [] graphql_type.kind = "ENUM"   -> Ok(register_enum(reg, graphql_type.name))
      [] graphql_type.kind = "NonNull" ->
            Then(recurse_find_references(node, graphql_type.of_type, reg),
                 LAMBDA reg1 : recurse_find_references(
                                   node, ListOf(graphql_type.of_type), reg1))
      [] graphql_type.kind = "List" ->
            recurse_find_references(node, graphql_type.of_type, reg)
      [] OTHER -> RaiseException(reg, "UnknownType", "Unknown Type", graphql_type)

\* The body of recurse_find_references: the isinstance chain over
\* graphql_type.  node.selection_set.selections of a node without selection
\* set is an AttributeError.
Activation(node, graphql_type, reg) ==
    CASE graphql_type.kind = "UNION" ->
            IF ~node.has_selection_set THEN Raise(reg, "AttributeError")
            ELSE UnionSelections(node, 1, reg)
      [] graphql_type.kind = "INTERFACE" ->
            IF ~node.has_selection_set THEN Raise(reg, "AttributeError")
            ELSE InterfaceSelections(node, graphql_type, 1, reg)
      [] graphql_type.kind = "OBJECT" ->
            IF ~node.has_selection_set THEN Raise(reg, "AttributeError")
            ELSE ObjectSelections(node, graphql_type, 1, reg)
      [] graphql_type.kind = "SCALAR" -> Ok(register_scalar(reg, graphql_type.name))
      [] graphql_type.kind = "ENUM"   -> Ok(register_enum(reg, graphql_type.name))
      [] graphql_type.kind = "NonNull" ->
            recurse_find_references(node, graphql_type.of_type, reg)
      [] graphql_type.kind = "List" ->
            recurse_find_references(node, graphql_type.of_type, reg)
      [] OTHER -> RaiseException(reg, "UnknownType", "Unknown Type", graphql_type)

\* recurse_find_references(node, graphql_type, client_schema, registry): one
\* activation and the activations it makes.
recurse_find_references(node, graphql_type, reg) ==
    AddCalls(1, Activation(node, graphql_type, reg))

-----------------------------------------------------------------------------
(* recurse_type_annotation: the type of a variable definition.             *)

\* A recurse_type_annotation that stops at a ListTypeNode.
RECURSIVE recurse_type_annotation_stopping_at_list(_, _)
recurse_type_annotation_stopping_at_list(graphql_type, reg) ==
    CASE graphql_type.kind = "NonNullType" ->
            recurse_type_annotation_stopping_at_list(graphql_type.type, reg)
      [] graphql_type.kind = "ListType" -> Ok(reg)
      [] graphql_type.kind = "NamedType" ->
            LET z == get_type(graphql_type.name)
            IN  CASE z.kind = "SCALAR"       -> Ok(register_scalar(reg, z.name))
                  [] z.kind = "INPUT_OBJECT" -> Ok(register_input(reg, z.name))
                  [] z.kind = "ENUM"         -> Ok(register_enum(reg, z.name))
                  [] OTHER -> RaiseException(reg, "UnknownSubtype", "Unknown Subtype",
                                             graphql_type)
      [] OTHER -> RaiseException(reg, "UnknownType", "Unknown Type", graphql_type)

\* A recurse_type_annotation that takes every other named type for an
\* object type.
RECURSIVE recurse_type_annotation_registering_any(_, _)
recurse_type_annotation_registering_any(graphql_type, reg) ==
    CASE graphql_type.kind = "NonNullType" ->
            recurse_type_annotation_registering_any(graphql_type.type, reg)
      [] graphql_type.kind = "ListType" ->
            recurse_type_annotation_registering_any(graphql_type.type, reg)
      [] graphql_type.kind = "NamedType" ->
            LET z == get_type(graphql_type.name)
            IN  CASE z.kind = "SCALAR"       -> Ok(register_scalar(reg, z.name))
                  [] z.kind = "INPUT_OBJECT" -> Ok(register_input(reg, z.name))
                  [] z.kind = "ENUM"         -> Ok(register_enum(reg, z.name))
                  [] OTHER -> Ok(register_type(reg, graphql_type.name))
      [] OTHER -> RaiseException(reg, "UnknownType", "Unknown Type", graphql_type)

RECURSIVE recurse_type_annotation(_, _)
recurse_type_annotation(graphql_type, reg) ==
    CASE graphql_type.kind = "NonNullType" ->
            recurse_type_annotation(graphql_type.type, reg)
      [] graphql_type.kind = "ListType" ->
            recurse_type_annotation(graphql_type.type, reg)
      [] graphql_type.kind = "NamedType" ->
            LET z == get_type(graphql_type.name)
            IN  CASE z.kind = "SCALAR"       -> Ok(register_scalar(reg, z.name))
                  [] z.kind = "INPUT_OBJECT" -> Ok(register_input(reg, z.name))
                  [] z.kind = "ENUM"         -> Ok(register_enum(reg, z.name))
                  [] OTHER -> RaiseException(reg, "UnknownSubtype", "Unknown Subtype",
                                             graphql_type)
      [] OTHER -> RaiseException(reg, "UnknownType", "Unknown Type", graphql_type)

-----------------------------------------------------------------------------
(* create_reference_registry_from_documents                                 *)

\* The dicts fragments / operations: definition name -> definition.  A dict
\* keeps the position of the first insertion of a key and the value of the
\* last one; values() lists the values in key order.
RECURSIVE DictValues(_, _)
DictValues(definitions, kind) ==
    IF definitions = <<>> THEN <<>>
    ELSE LET last == definitions[Len(definitions)]
             front == DictValues(SubSeq(definitions, 1, Len(definitions) - 1), kind)
         IN  IF last.kind # kind THEN front
             ELSE IF \E i \in 1..Len(front) : front[i].name = last.name
               THEN [i \in 1..Len(front) |->
                        IF front[i].name = last.name THEN last ELSE front[i]]
             ELSE Append(front, last)

\* A top-level loop that registers the fragment spreads it meets.
RECURSIVE TopSelections_registering_spreads(_, _, _, _)
TopSelections_registering_spreads(selections, type, i, reg) ==
    IF i > Len(selections) THEN Ok(reg)
    ELSE IF selections[i].kind = "FragmentSpread"
      THEN TopSelections_registering_spreads(
               selections, type, i + 1, register_fragment(reg, selections[i].name))
    ELSE IF selections[i].kind # "Field" \/ selections[i].name = "__typename"
      THEN TopSelections_registering_spreads(selections, type, i + 1, reg)
    ELSE IF ~HasFields(type) THEN Raise(reg, "AttributeError")
    ELSE IF selections[i].name \notin FieldNames(type.name) THEN Raise(reg, "KeyError")
    ELSE Then(recurse_find_references(
                  selections[i], SchemaFields[type.name][selections[i].name], reg),
              LAMBDA reg1 : TopSelections_registering_spreads(
                                selections, type, i + 1, reg1))

\* The loop over the top-level selections of a fragment or an operation:
\* only FieldNodes other than __typename are walked, against the field of
\* the enclosing type.
RECURSIVE TopSelections(_, _, _, _)
TopSelections(selections, type, i, reg) ==
    IF i > Len(selections) THEN Ok(reg)
    ELSE IF selections[i].kind # "Field" \/ selections[i].name = "__typename"
      THEN TopSelections(selections, type, i + 1, reg)
    ELSE IF ~HasFields(type) THEN Raise(reg, "AttributeError")
    ELSE IF selections[i].name \notin FieldNames(type.name) THEN Raise(reg, "KeyError")
    ELSE Then(recurse_find_references(
                  selections[i], SchemaFields[type.name][selections[i].name], reg),
              LAMBDA reg1 : TopSelections(selections, type, i + 1, reg1))

\* for fragment in fragments.values()
RECURSIVE WalkFragments(_, _, _)
WalkFragments(fragments, i, reg) ==
    IF i > Len(fragments) THEN Ok(reg)
    ELSE Then(TopSelections(fragments[i].selections,
                            get_type(fragments[i].type_condition), 1, reg),
              LAMBDA reg1 : WalkFragments(fragments, i + 1, reg1))

\* for argument in operation.variable_definitions
RECURSIVE WalkVariables(_, _, _)
WalkVariables(variable_definitions, i, reg) ==
    IF i > Len(variable_definitions) THEN Ok(reg)
    ELSE Then(recurse_type_annotation(variable_definitions[i].type, reg),
              LAMBDA reg1 : WalkVariables(variable_definitions, i + 1, reg1))

\* for operation in operations.values(): the variables, then the selections
\* against the root type of the operation.
RECURSIVE WalkOperations(_, _, _)
WalkOperations(operations, i, reg) ==
    IF i > Len(operations) THEN Ok(reg)
    ELSE Then(Then(WalkVariables(operations[i].variable_definitions, 1, reg),
                   LAMBDA reg1 : TopSelections(operations[i].selections,
                                               get_root_type(operations[i].operation),
                                               1, reg1)),
              LAMBDA reg2 : WalkOperations(operations, i + 1, reg2))

create_reference_registry_from_documents(doc) ==
    Then(WalkFragments(DictValues(doc, "FragmentDefinition"), 1, EmptyRegistry),
         LAMBDA reg : WalkOperations(DictValues(doc, "OperationDefinition"), 1, reg))


-----------------------------------------------------------------------------
(* The documents of the check: every parsed document of at most MaxSize    *)
(* nodes over the schema.  A selection set, where present, is not empty    *)
(* (the grammar), a field has a selection set exactly when its type is     *)
(* composite, and definition names are unique (validation).                *)

FragmentTypes == {"Pet", "Query"}

FragmentName(tc) == tc \o "Fragment"

FragmentNames == {FragmentName(tc) : tc \in FragmentTypes}

\* The types an object of the type named tn may have.
PossibleTypes(tn) ==
    IF SchemaTypes[tn] = "OBJECT" THEN {tn} ELSE {"Pet", "Person"}

\* The fragments that may be spread inside a selection on the type named tn.
SpreadNames(tn) == {FragmentName(tc) : tc \in FragmentTypes \cap PossibleTypes(tn)}

\* Names a variable definition may give as its type: input types, output
\* types and a name the schema does not have.
VariableTypeNames == {"String", "Mood", "PetFilter", "Pet", "Missing"}

IsComposite(t) == NamedTypeOf(t).kind \in {"OBJECT", "INTERFACE", "UNION"}

LeafFields(tn) ==
    {f \in FieldNames(tn) : ~IsComposite(SchemaFields[tn][f])}

CompositeFields(tn) ==
    {f \in FieldNames(tn) : IsComposite(SchemaFields[tn][f])}

\* The type conditions an inline fragment may carry inside a selection on
\* the type named tn; NoName is the inline fragment without type condition.
TypeConditions(tn) == PossibleTypes(tn) \cup {NoName}

\* The documents are enumerated as sequences without repetition.
RECURSIVE SetToSeq(_)
SetToSeq(S) ==
    IF S = {} THEN <<>>
    ELSE LET x == CHOOSE y \in S : TRUE IN <<x>> \o SetToSeq(S \ {x})

Range(s) == {s[i] : i \in 1..Len(s)}

\* <<F(s[1]), ..., F(s[n])>>
Map(F(_), s) == <<>> \o [i \in 1..Len(s) |-> F(s[i])]

\* F(a[i], b[j]) for every i and j.
Product(F(_, _), a, b) ==
    <<>> \o [i \in 1..(Len(a) * Len(b)) |->
                F(a[((i - 1) \div Len(b)) + 1], b[((i - 1) % Len(b)) + 1])]

\* F(s[1]) \o ... \o F(s[n])
RECURSIVE FlatMap(_, _)
FlatMap(F(_), s) ==
    IF s = <<>> THEN <<>> ELSE F(Head(s)) \o FlatMap(F, Tail(s))

Upto(n) == [i \in 1..n |-> i]

\* One value per composite type of the schema.
ByType(F(_)) ==
    [ Query        |-> F("Query"),
      Pet          |-> F("Pet"),
      Person       |-> F("Person"),
      Node         |-> F("Node"),
      SearchResult |-> F("SearchResult") ]

\* The selection nodes of exactly n nodes on the type named tn, given the
\* sequences of selection nodes of exactly n - 1 nodes (seqs, by type).
NodesOfSize(tn, n, seqs) ==
    IF n = 1
      THEN <<TypenameNode>>
             \o Map(LeafFieldNode, SetToSeq(LeafFields(tn)))
             \o Map(FragmentSpreadNode, SetToSeq(SpreadNames(tn)))
      ELSE FlatMap(LAMBDA f : Map(LAMBDA sels : FieldNode(f, sels),
                                  seqs[NamedTypeOf(SchemaFields[tn][f]).name]),
                   SetToSeq(CompositeFields(tn)))
             \o FlatMap(LAMBDA tc : Map(LAMBDA sels : InlineFragmentNode(tc, sels),
                                        seqs[IF tc = NoName THEN tn ELSE tc]),
                        SetToSeq(TypeConditions(tn)))

\* The selection nodes and the sequences of selection nodes by type and by
\* number of nodes, up to n: nodes[tn][k] lists the nodes of k nodes,
\* seqs[tn][k + 1] the sequences of k nodes in total.
RECURSIVE SelectionTable(_)
SelectionTable(n) ==
    IF n = 0
      THEN [nodes |-> ByType(LAMBDA tn : <<>>), seqs |-> ByType(LAMBDA tn : <<<< <<>> >>>>)]
      ELSE LET p == SelectionTable(n - 1)
               last == ByType(LAMBDA tn : p.seqs[tn][n])
               nodes == ByType(LAMBDA tn : Append(p.nodes[tn], NodesOfSize(tn, n, last)))
               SeqsOfSize(tn) ==
                   FlatMap(LAMBDA k : Product(LAMBDA h, t : <<h>> \o t,
                                              nodes[tn][k], p.seqs[tn][n - k + 1]),
                           Upto(n))
           IN  [nodes |-> nodes,
                seqs  |-> ByType(LAMBDA tn : Append(p.seqs[tn], SeqsOfSize(tn)))]

\* A definition of MaxSize nodes holds sequences of MaxSize - 1 nodes, a
\* field of MaxNodes nodes holds sequences of MaxNodes - 1 nodes.
Selections == SelectionTable((IF MaxSize > MaxNodes THEN MaxSize ELSE MaxNodes) - 1)

SelectionSeqs(tn, n) == Selections.seqs[tn][n + 1]

SelectionNodes(tn, n) ==
    NodesOfSize(tn, n, ByType(LAMBDA t : IF n = 1 THEN <<>> ELSE SelectionSeqs(t, n - 1)))

RECURSIVE TypeNodes(_)
TypeNodes(n) ==
    IF n = 1 THEN Map(NamedTypeNode, SetToSeq(VariableTypeNames))
    ELSE Map(ListTypeNode, TypeNodes(n - 1))
           \o Map(NonNullTypeNode,
                  SelectSeq(TypeNodes(n - 1), LAMBDA u : u.kind # "NonNullType"))

RECURSIVE VariableSeqs(_, _)
VariableSeqs(n, pos) ==
    IF n = 0 THEN << <<>> >>
    ELSE FlatMap(LAMBDA k :
                    Product(LAMBDA t, rest :
                                <<VariableDefinitionNode("v" \o ToString(pos), t)>> \o rest,
                            TypeNodes(k), VariableSeqs(n - k, pos + 1)),
                 Upto(n))

\* The definitions of exactly n nodes that may stand at position pos.
Definitions(n, pos) ==
    IF n < 2 THEN <<>>
    ELSE FlatMap(LAMBDA tc : Map(LAMBDA sels : FragmentDefinitionNode(FragmentName(tc), tc, sels),
                                 SelectionSeqs(tc, n - 1)),
                 SetToSeq(FragmentTypes))
           \o FlatMap(LAMBDA v :
                         Product(LAMBDA vs, sels :
                                     OperationDefinitionNode("Op" \o ToString(pos), "query",
                                                             vs, sels),
                                 VariableSeqs(v, 1), SelectionSeqs("Query", n - 1 - v)),
                      [i \in 1..(n - 1) |-> i - 1])

RECURSIVE DefinitionSeqs(_, _)
DefinitionSeqs(n, pos) ==
    IF n = 0 THEN << <<>> >>
    ELSE FlatMap(LAMBDA k : Product(LAMBDA d, rest : <<d>> \o rest,
                                    Definitions(k, pos), DefinitionSeqs(n - k, pos + 1)),
                 Upto(n))

UniqueNames(doc) ==
    \A i, j \in 1..Len(doc) : doc[i].name = doc[j].name => i = j

Documents ==
    SelectSeq(FlatMap(LAMBDA n : DefinitionSeqs(n, 1), Upto(MaxSize)), UniqueNames)

-----------------------------------------------------------------------------
(* Names the funcs plugin builds class names from are strings of            *)
(* characters: a sequence of one-character strings.                         *)

LowerCase == <<"a", "b", "c", "d", "e", "f", "g", "h", "i", "j", "k", "l", "m",
               "n", "o", "p", "q", "r", "s", "t", "u", "v", "w", "x", "y", "z">>
UpperCase == <<"A", "B", "C", "D", "E", "F", "G", "H", "I", "J", "K", "L", "M",
               "N", "O", "P", "Q", "R", "S", "T", "U", "V", "W", "X", "Y", "Z">>

Upper(c) ==
    IF \E i \in 1..Len(LowerCase) : LowerCase[i] = c
      THEN UpperCase[CHOOSE i \in 1..Len(LowerCase) : LowerCase[i] = c]
      ELSE c

Lower(c) ==
    IF \E i \in 1..Len(UpperCase) : UpperCase[i] = c
      THEN LowerCase[CHOOSE i \in 1..Len(UpperCase) : UpperCase[i] = c]
      ELSE c

\* str.capitalize(): the first character in upper case, the rest in lower case.
capitalize(str) ==
    [i \in 1..Len(str) |-> IF i = 1 THEN Upper(str[i]) ELSE Lower(str[i])]

\* None where a NameNode is expected (a field without alias).
NoAlias == <<>>

\* overwrite_final=None
NoFinal == <<>>

N_GetPet      == <<"G", "e", "t", "P", "e", "t">>
N_pet         == <<"p", "e", "t">>
N_version     == <<"v", "e", "r", "s", "i", "o", "n">>
N_species     == <<"s", "p", "e", "c", "i", "e", "s">>
N_bestFriend  == <<"b", "e", "s", "t", "F", "r", "i", "e", "n", "d">>
N_dunder      == <<"_", "_", "t", "y", "p", "e", "n", "a", "m", "e">>
N_PetFragment == <<"P", "e", "t", "F", "r", "a", "g", "m", "e", "n", "t">>
N_Pet         == <<"P", "e", "t">>
N_str         == <<"s", "t", "r">>

-----------------------------------------------------------------------------
(* The operations handed to the funcs plugin.  A field node carries its    *)
(* alias; selection_set is None when has_selection_set is FALSE.           *)

FuncFieldNode(n, a, has, sels) ==
    [kind |-> "Field", name |-> n, alias |-> a,
     has_selection_set |-> has, selections |-> sels]

FuncSpreadNode(n) ==
    [kind |-> "FragmentSpread", name |-> n, alias |-> NoAlias,
     has_selection_set |-> FALSE, selections |-> <<>>]

\* An operation without variables or documentation of its own.
NoDocumentation == ""

FuncOperation(n, op, has, sels) ==
    [name |-> n, operation |-> op, variable_definitions |-> <<>>,
     documentation |-> NoDocumentation,
     has_selection_set |-> has, selections |-> sels]

\* get_field_def(client_schema, root, field): the fields of the root types.
\* Every root type of the schema has the same two fields; __typename is the
\* meta field of every composite type.
RootFieldTypes ==
    (N_pet :> ListOf(NonNull(Named("OBJECT", N_Pet)))) @@
    (N_version :> NonNull(Named("SCALAR", N_str))) @@
    (N_dunder :> NonNull(Named("SCALAR", N_str)))

HasFieldDef(f) == f.kind = "Field" /\ f.name \in DOMAIN RootFieldTypes

-----------------------------------------------------------------------------
(* ClassRegistry (turms/registry.py) and the output type helpers            *)
(* (turms/utils.py).                                                        *)

NoAffixes == [query |-> <<>>, mutation |-> <<>>, subscription |-> <<>>, fragment |-> <<>>]

KindAffixes ==
    [query        |-> <<"Q", "u", "e", "r", "y">>,
     mutation     |-> <<"M", "u", "t", "a", "t", "i", "o", "n">>,
     subscription |-> <<"S", "u", "b", "s", "c", "r", "i", "p", "t", "i", "o", "n">>,
     fragment     |-> <<"F", "r", "a", "g", "m", "e", "n", "t">>]

style_query_class(typename, reg)        == typename \o reg.options.query
style_mutation_class(typename, reg)     == typename \o reg.options.mutation
style_subscription_class(typename, reg) == typename \o reg.options.subscription
style_fragment_class(typename, reg)     == typename \o reg.options.fragment

\* reference_fragment(typename, parent, allow_forward): a Name of the class of
\* a registered fragment; for a fragment not registered yet a string
\* constant (a forward reference) when allow_forward, an error otherwise.
reference_fragment(typename, parent, allow_forward, reg) ==
    IF typename \in reg.fragment_class_map
      THEN [err |-> NoError, node |-> "Name", id |-> style_fragment_class(typename, reg)]
    ELSE IF allow_forward
      THEN [err |-> NoError, node |-> "Constant", id |-> style_fragment_class(typename, reg)]
    ELSE [err |-> "NoFragmentFound", node |-> "None", id |-> <<>>]

\* A type expression of the target language.
NameExpr(id)     == <<"Name", id>>
OptionalExpr(e)  == <<"Optional", e>>
ListExpr(e)      == <<"List", e>>

\* recurse_outputtype_annotation(type, registry, overwrite_final): the type
\* expression of a declared type; nullable unless under a NonNull wrapper.
RECURSIVE recurse_outputtype_annotation(_, _, _)
recurse_outputtype_annotation(graphql_type, overwrite_final, optional) ==
    CASE graphql_type.kind = "NonNull" ->
            recurse_outputtype_annotation(graphql_type.of_type, overwrite_final, FALSE)
      [] graphql_type.kind = "List" ->
            LET inner == ListExpr(recurse_outputtype_annotation(
                                      graphql_type.of_type, overwrite_final, TRUE))
            IN  IF optional THEN OptionalExpr(inner) ELSE inner
      [] OTHER ->
            LET final == IF overwrite_final = NoFinal THEN graphql_type.name
                         ELSE overwrite_final
            IN  IF optional THEN OptionalExpr(NameExpr(final)) ELSE NameExpr(final)

\* recurse_outputtype_label(type, registry, overwrite_final): the same type,
\* as the text of the docstring.
RECURSIVE recurse_outputtype_label(_, _, _)
recurse_outputtype_label(graphql_type, overwrite_final, optional) ==
    CASE graphql_type.kind = "NonNull" ->
            recurse_outputtype_label(graphql_type.of_type, overwrite_final, FALSE)
      [] graphql_type.kind = "List" ->
            LET inner == <<"List[">>
                           \o recurse_outputtype_label(graphql_type.of_type, overwrite_final, TRUE)
                           \o <<"]">>
            IN  IF optional THEN <<"Optional[">> \o inner \o <<"]">> ELSE inner
      [] OTHER ->
            LET final == IF overwrite_final = NoFinal THEN graphql_type.name
                         ELSE overwrite_final
            IN  IF optional THEN <<"Optional[">> \o final \o <<"]">> ELSE final

-----------------------------------------------------------------------------
(* turms/plugins/funcs.py                                                   *)

\* What a return type function hands back: the value returned (an ast
\* expression or a text), with the return statement taken and the final type
\* name it passed, or the exception raised.
Returned(branch, final, value) ==
    [err |-> NoError, branch |-> branch, final |-> final, value |-> value]

Raised(e) == [err |-> e, branch |-> "raise", final |-> <<>>, value |-> <<>>]

NotCalled == [err |-> "not called", branch |-> "", final |-> <<>>, value |-> <<>>]

get_operation_class_name(op, reg) ==
    CASE op.operation = "query"        -> style_query_class(op.name, reg)
      [] op.operation = "mutation"     -> style_mutation_class(op.name, reg)
      [] op.operation = "subscription" -> style_subscription_class(op.name, reg)

\* get_return_type_annotation, the block under `if collapse is True`.
CollapsedAnnotation(op, reg, o_name) ==
    IF ~op.has_selection_set THEN Raised("AttributeError")
    ELSE IF op.selections = <<>> THEN Raised("IndexError")
    ELSE LET collapsable_field == op.selections[1]
         IN  IF ~HasFieldDef(collapsable_field) THEN Raised("AttributeError")
             ELSE LET field_type == RootFieldTypes[collapsable_field.name]
                  IN  IF ~collapsable_field.has_selection_set
                        THEN Returned("no sub-selection", NamedTypeOf(field_type).name,
                                      recurse_outputtype_annotation(field_type, NoFinal, TRUE))
                      ELSE IF /\ Len(collapsable_field.selections) = 1
                              /\ collapsable_field.selections[1].kind = "FragmentSpread"
                        THEN LET ref == reference_fragment(
                                            collapsable_field.selections[1].name,
                                            <<>>, FALSE, reg)
                             IN  IF ref.err # NoError THEN Raised(ref.err)
                                 ELSE IF ref.node # "Name" THEN Raised("AttributeError")
                                 ELSE Returned("fragment", ref.id,
                                               recurse_outputtype_annotation(
                                                   field_type, ref.id, TRUE))
                      ELSE LET field_name ==
                                   IF collapsable_field.alias = NoAlias
                                     THEN collapsable_field.name
                                     ELSE collapsable_field.alias
                               final == o_name \o capitalize(field_name)
                           IN  Returned("nested", final,
                                        recurse_outputtype_annotation(field_type, final, TRUE))

\* A get_return_type_annotation that reads o.selection_set.selections[0]
\* before it looks at the collapse flag.
get_return_type_annotation_reading_first(op, reg, collapse_arg) ==
    IF ~op.has_selection_set THEN Raised("AttributeError")
    ELSE IF op.selections = <<>> THEN Raised("IndexError")
    ELSE IF collapse_arg
      THEN CollapsedAnnotation(op, reg, get_operation_class_name(op, reg))
    ELSE Returned("wrapper", get_operation_class_name(op, reg),
                  NameExpr(get_operation_class_name(op, reg)))

get_return_type_annotation(op, reg, collapse_arg) ==
    IF collapse_arg
      THEN CollapsedAnnotation(op, reg, get_operation_class_name(op, reg))
      ELSE Returned("wrapper", get_operation_class_name(op, reg),
                    NameExpr(get_operation_class_name(op, reg)))

\* get_return_type_string, the block under `if collapse is True`.
CollapsedString(op, reg, o_name) ==
    IF ~op.has_selection_set THEN Raised("AttributeError")
    ELSE IF op.selections = <<>> THEN Raised("IndexError")
    ELSE LET potential_return_field == op.selections[1]
         IN  IF ~HasFieldDef(potential_return_field) THEN Raised("AttributeError")
             ELSE LET potential_return_type == RootFieldTypes[potential_return_field.name]
                  IN  IF ~potential_return_field.has_selection_set
                        THEN Returned("no sub-selection",
                                      NamedTypeOf(potential_return_type).name,
                                      recurse_outputtype_label(
                                          potential_return_type, NoFinal, TRUE))
                      ELSE IF /\ Len(potential_return_field.selections) = 1
                              /\ potential_return_field.selections[1].kind = "FragmentSpread"
                        THEN LET ref == reference_fragment(
                                            potential_return_field.selections[1].name,
                                            <<>>, FALSE, reg)
                             IN  IF ref.err # NoError THEN Raised(ref.err)
                                 ELSE IF ref.node # "Name" THEN Raised("AttributeError")
                                 ELSE Returned("fragment", ref.id,
                                               recurse_outputtype_label(
                                                   potential_return_type, ref.id, TRUE))
                      ELSE LET final == o_name \o capitalize(potential_return_field.name)
                           IN  Returned("nested", final,
                                        recurse_outputtype_label(
                                            potential_return_type, final, TRUE))

get_return_type_string(op, reg, collapse_arg) ==
    IF collapse_arg
      THEN CollapsedString(op, reg, get_operation_class_name(op, reg))
      ELSE Returned("wrapper", get_operation_class_name(op, reg),
                    get_operation_class_name(op, reg))

\* An is_collapsable that accepts every operation with a selection.
is_collapsable_with_any_selection(op) ==
    IF ~op.has_selection_set
      THEN [err |-> "AssertionError", value |-> FALSE]
      ELSE [err |-> NoError, value |-> (Len(op.selections) >= 1)]

\* is_collapsable(o): the assert, then the comparison.
is_collapsable(op) ==
    IF ~op.has_selection_set
      THEN [err |-> "AssertionError", value |-> FALSE]
      ELSE [err |-> NoError, value |-> (Len(op.selections) = 1)]

-----------------------------------------------------------------------------
(* The operations of the check: every operation of at most                 *)
(* MaxOperationSize selection nodes whose root fields are version (a       *)
(* scalar), pet (a list of objects) or a fragment spread, a field with or  *)
(* without alias, and also the operation without selection set and the     *)
(* one with an empty selection set, which only a program can build.        *)

SubSelectionNodes ==
    <<FuncFieldNode(N_species, NoAlias, FALSE, <<>>),
      FuncFieldNode(N_dunder, NoAlias, FALSE, <<>>),
      FuncSpreadNode(N_PetFragment)>>

RECURSIVE SubSelectionSeqs(_)
SubSelectionSeqs(n) ==
    IF n = 0 THEN << <<>> >>
    ELSE Product(LAMBDA h, t : <<h>> \o t, SubSelectionNodes, SubSelectionSeqs(n - 1))

Aliases == <<NoAlias, N_bestFriend>>

RootSelectionNodes(n) ==
    IF n = 1
      THEN Map(LAMBDA a : FuncFieldNode(N_version, a, FALSE, <<>>), Aliases)
             \o <<FuncSpreadNode(N_PetFragment)>>
      ELSE Product(LAMBDA a, sels : FuncFieldNode(N_pet, a, TRUE, sels),
                   Aliases, SubSelectionSeqs(n - 1))

RECURSIVE RootSelectionSeqs(_)
RootSelectionSeqs(n) ==
    IF n = 0 THEN << <<>> >>
    ELSE FlatMap(LAMBDA k : Product(LAMBDA h, t : <<h>> \o t,
                                    RootSelectionNodes(k), RootSelectionSeqs(n - k)),
                 Upto(n))

OperationTypes == <<"query", "mutation", "subscription">>

Operations ==
    FlatMap(LAMBDA op :
                <<FuncOperation(N_GetPet, op, FALSE, <<>>)>>
                  \o FlatMap(LAMBDA n : Map(LAMBDA sels : FuncOperation(N_GetPet, op, TRUE, sels),
                                            RootSelectionSeqs(n)),
                             [i \in 1..(MaxOperationSize + 1) |-> i - 1]),
            OperationTypes)

-----------------------------------------------------------------------------
(* generate_parameters: the signature of a generated function.             *)

N_int     == <<"i", "n", "t">>
N_Int     == <<"I", "n", "t">>
N_rath    == <<"r", "a", "t", "h">>
N_Rath    == <<"R", "a", "t", "h">>
N_Session == <<"S", "e", "s", "s", "i", "o", "n">>

\* Python values a default can be: None and the integers.
PyNone     == [kind |-> "NoneType", value |-> 0]
PyInt(n)   == [kind |-> "int", value |-> n]

\* Arg(key, type) and Kwarg(key, type, default); type is a dotted path,
\* held as the sequence of its components.
Arg(key, type)            == [key |-> key, type |-> type]
Kwarg(key, type, default) == [key |-> key, type |-> type, default |-> default]

\* FunctionDefinition(type, is_async, extra_args, extra_kwargs, use); use is
\* a dotted path, held as the sequence of its components.
FunctionDefinition(type, is_async, extra_args, extra_kwargs, use) ==
    [type |-> type, is_async |-> is_async, extra_args |-> extra_args,
     extra_kwargs |-> extra_kwargs, use |-> use]

\* FuncsPluginConfig; collapse_lonely is held apart.
FuncsPluginConfig(global_args, global_kwargs, definitions, extract_documentation) ==
    [prepend_sync |-> <<>>, prepend_async |-> <<"a">>,
     global_args |-> global_args, global_kwargs |-> global_kwargs,
     definitions |-> definitions, extract_documentation |-> extract_documentation]

\* v.default_value: None, or a ValueNode with the text of its value.
NoDefault          == [kind |-> "None", value |-> ""]
IntValueNode(text) == [kind |-> "IntValue", value |-> text]
NullValueNode      == [kind |-> "NullValue", value |-> ""]

\* VariableDefinitionNode with its default value.
VariableNode(n, t, default_value) ==
    [kind |-> "VariableDefinition", name |-> n, type |-> t,
     default_value |-> default_value]

\* `if v.default_value`: None is false; a Node defines neither __bool__ nor
\* __len__, so every ValueNode, NullValueNode included, is true.
Truthy(default_value) == default_value.kind # "None"

\* type.split(".")[-1]
LastComponent(type) == type[Len(type)]

\* ast.arg(arg=..., annotation=...)
AstArg(name, ann) == [arg |-> name, annotation |-> ann]

\* ast.Constant(value=...)
AstConstant(value) == [kind |-> "Constant", value |-> value]

\* ast.arguments(args=..., posonlyargs=[], kwonlyargs=[], kw_defaults=[],
\* defaults=...)
AstArguments(args, defaults) ==
    [args |-> args, posonlyargs |-> <<>>, kwonlyargs |-> <<>>, kw_defaults |-> <<>>,
     defaults |-> defaults]

\* keyword.iskeyword for the names of the check.
PythonKeywords == {"from", "in", "class"}

\* ClassRegistry.generate_parameter_name
generate_parameter_name(name) ==
    IF name \in PythonKeywords THEN name \o "_" ELSE name

\* ClassRegistry.register_import
register_import(registered, type) == registered \cup {type}

\* The host types of the scalars.
ScalarHostTypes == [Int |-> N_int, String |-> N_str]

\* turms.utils.recurse_type_annotation: the annotation of a variable type,
\* nullable unless directly under a NonNull wrapper.
RECURSIVE utils_recurse_type_annotation(_, _)
utils_recurse_type_annotation(type, optional) ==
    CASE type.kind = "NonNullType" -> utils_recurse_type_annotation(type.type, FALSE)
      [] type.kind = "ListType" ->
            IF optional
              THEN OptionalExpr(ListExpr(utils_recurse_type_annotation(type.type, TRUE)))
              ELSE ListExpr(utils_recurse_type_annotation(type.type, TRUE))
      [] OTHER ->
            IF optional
              THEN OptionalExpr(NameExpr(ScalarHostTypes[type.name]))
              ELSE NameExpr(ScalarHostTypes[type.name])

\* The text of a digit as a number.
DigitValue(text) ==
    CASE text = "0" -> 0 [] text = "1" -> 1 [] text = "2" -> 2 [] text = "3" -> 3
      [] text = "4" -> 4 [] text = "5" -> 5 [] text = "6" -> 6 [] text = "7" -> 7
      [] text = "8" -> 8 [] text = "9" -> 9

\* turms.utils.parse_value_node: the Python value of a ValueNode.
parse_value_node(value_node) ==
    CASE value_node.kind = "IntValue"  -> PyInt(DigitValue(value_node.value))
      [] value_node.kind = "NullValue" -> PyNone

\* get_extra_args_for_onode
get_extra_args_for_onode(definition, config) ==
    config.global_args \o definition.extra_args

\* get_extra_kwargs_for_onode
get_extra_kwargs_for_onode(definition, config) ==
    config.global_kwargs \o definition.extra_kwargs

\* The imports after register_import of the types from position i on.
RECURSIVE RegisterImports(_, _, _)
RegisterImports(registered, extras, i) ==
    IF i > Len(extras) THEN registered
    ELSE RegisterImports(register_import(registered, extras[i].type), extras, i + 1)

\* ast.arg of an extra arg or kwarg.
ExtraArg(extra) == AstArg(extra.key, NameExpr(LastComponent(extra.type)))

\* ast.arg of a variable.
VariableArg(v) ==
    AstArg(generate_parameter_name(v.name), utils_recurse_type_annotation(v.type, TRUE))

IsArgVariable(v) == v.type.kind = "NonNullType" /\ ~Truthy(v.default_value)

IsKwargVariable(v) == v.type.kind # "NonNullType" \/ Truthy(v.default_value)

\* The default of a kwarg variable.
VariableDefault(v) ==
    AstConstant(IF Truthy(v.default_value) THEN parse_value_node(v.default_value)
                                           ELSE PyNone)

ExtraDefault(kwarg) == AstConstant(kwarg.default)

\* A generate_parameters that takes for kwarg variables the variables whose
\* type is not NonNull.
generate_parameters_by_type_only(definition, op, config, registered) ==
    [imports |->
        RegisterImports(
            RegisterImports(registered, get_extra_args_for_onode(definition, config), 1),
            get_extra_kwargs_for_onode(definition, config), 1),
     arguments |->
        AstArguments(
            Map(ExtraArg, get_extra_args_for_onode(definition, config))
              \o Map(VariableArg, SelectSeq(op.variable_definitions, IsArgVariable))
              \o Map(VariableArg,
                     SelectSeq(op.variable_definitions,
                               LAMBDA v : v.type.kind # "NonNullType"))
              \o Map(ExtraArg, get_extra_kwargs_for_onode(definition, config)),
            Map(VariableDefault,
                SelectSeq(op.variable_definitions,
                          LAMBDA v : v.type.kind # "NonNullType"))
              \o Map(ExtraDefault, get_extra_kwargs_for_onode(definition, config)))]

\* generate_parameters(definition, operation_definition, config,
\* plugin_config, registry): the ast.arguments returned and the imports of
\* the registry after the call.
generate_parameters(definition, op, config, registered) ==
    [imports |->
        RegisterImports(
            RegisterImports(registered, get_extra_args_for_onode(definition, config), 1),
            get_extra_kwargs_for_onode(definition, config), 1),
     arguments |->
        AstArguments(
            Map(ExtraArg, get_extra_args_for_onode(definition, config))
              \o Map(VariableArg, SelectSeq(op.variable_definitions, IsArgVariable))
              \o Map(VariableArg, SelectSeq(op.variable_definitions, IsKwargVariable))
              \o Map(ExtraArg, get_extra_kwargs_for_onode(definition, config)),
            Map(VariableDefault, SelectSeq(op.variable_definitions, IsKwargVariable))
              \o Map(ExtraDefault, get_extra_kwargs_for_onode(definition, config)))]

\* The inputs of generate_parameters: the types and defaults of a variable,
\* the operations of up to MaxVariables variables, and the extra args and
\* kwargs of the plugin's configuration.
ParameterTypeNodes ==
    <<NamedTypeNode("Int"), NonNullTypeNode(NamedTypeNode("Int")),
      ListTypeNode(NamedTypeNode("String")),
      NonNullTypeNode(ListTypeNode(NamedTypeNode("Int")))>>

DefaultValues == <<NoDefault, IntValueNode("0"), NullValueNode>>

VariableName(pos) == IF pos = 2 THEN "from" ELSE "v" \o ToString(pos)

RECURSIVE ParameterVariables(_, _)
ParameterVariables(n, pos) ==
    IF n = 0 THEN << <<>> >>
    ELSE FlatMap(LAMBDA t :
                    FlatMap(LAMBDA default_value :
                               Map(LAMBDA rest :
                                      <<VariableNode(VariableName(pos), t, default_value)>>
                                        \o rest,
                                   ParameterVariables(n - 1, pos + 1)),
                            DefaultValues),
                 ParameterTypeNodes)

ParameterOperations ==
    Map(LAMBDA vs : OperationDefinitionNode("GetPet", "query", vs, <<>>),
        FlatMap(LAMBDA n : ParameterVariables(n, 1),
                [i \in 1..(MaxVariables + 1) |-> i - 1]))

GlobalArgs   == {<<>>, <<Arg("client", <<N_rath, N_Rath>>)>>}
ExtraArgs    == {<<>>, <<Arg("session", <<N_Session>>)>>}
GlobalKwargs == {<<>>, <<Kwarg("timeout", <<N_int>>, PyInt(3))>>}
ExtraKwargs  == {<<>>, <<Kwarg("rath", <<N_rath, N_Rath>>, PyNone)>>}

NotCalledArguments == AstArguments(<<AstArg("not called", NameExpr(<<>>))>>, <<>>)

-----------------------------------------------------------------------------
(* generate_operation_func: the function generated for one operation and   *)
(* one definition of the plugin's configuration.                           *)

N_GetPets       == <<"G", "e", "t", "P", "e", "t", "s">>
N_bogus         == <<"b", "o", "g", "u", "s">>
N_mod           == <<"m", "o", "d">>
N_execute       == <<"e", "x", "e", "c", "u", "t", "e">>
N_aexecute      == <<"a", "e", "x", "e", "c", "u", "t", "e">>
N_subscribe     == <<"s", "u", "b", "s", "c", "r", "i", "b", "e">>
N_asubscribe    == <<"a", "s", "u", "b", "s", "c", "r", "i", "b", "e">>
N_typing        == <<"t", "y", "p", "i", "n", "g">>
N_Iterator      == <<"I", "t", "e", "r", "a", "t", "o", "r">>
N_AsyncIterator == <<"A", "s", "y", "n", "c">> \o N_Iterator

\* The character classes of the two patterns of camel_to_snake.
IsUpper(c) == \E k \in 1..Len(UpperCase) : UpperCase[k] = c
IsLower(c) == \E k \in 1..Len(LowerCase) : LowerCase[k] = c
IsDigit(c) == c \in {"0", "1", "2", "3", "4", "5", "6", "7", "8", "9"}

\* [a-z]+ is greedy: the last position of the run of lower case letters
\* that holds position i.
RECURSIVE LowerRunEnd(_, _)
LowerRunEnd(name, i) ==
    IF i + 1 <= Len(name) /\ IsLower(name[i + 1]) THEN LowerRunEnd(name, i + 1) ELSE i

\* re.sub("(.)([A-Z][a-z]+)", r"\1_\2", name), scanned from position i: the
\* matches are taken from the left and do not overlap.
RECURSIVE SubWords(_, _)
SubWords(name, i) ==
    IF i > Len(name) THEN <<>>
    ELSE IF i + 2 <= Len(name) /\ IsUpper(name[i + 1]) /\ IsLower(name[i + 2])
      THEN <<name[i], "_">> \o SubSeq(name, i + 1, LowerRunEnd(name, i + 2))
             \o SubWords(name, LowerRunEnd(name, i + 2) + 1)
      ELSE <<name[i]>> \o SubWords(name, i + 1)

\* re.sub("([a-z0-9])([A-Z])", r"\1_\2", name), scanned from position i.
RECURSIVE SubCapitals(_, _)
SubCapitals(name, i) ==
    IF i > Len(name) THEN <<>>
    ELSE IF i + 1 <= Len(name) /\ (IsLower(name[i]) \/ IsDigit(name[i]))
                               /\ IsUpper(name[i + 1])
      THEN <<name[i], "_", name[i + 1]>> \o SubCapitals(name, i + 2)
      ELSE <<name[i]>> \o SubCapitals(name, i + 1)

camel_to_snake(name) == Map(Lower, SubCapitals(SubWords(name, 1), 1))

generate_async_func_name(op, config) == config.prepend_async \o camel_to_snake(op.name)

generate_sync_func_name(op, config) == config.prepend_sync \o camel_to_snake(op.name)

\* get_definitions_for_onode(operation_definition, plugin_config)
get_definitions_for_onode(op, config) ==
    SelectSeq(config.definitions, LAMBDA definition : definition.type = op.operation)

\* turms.utils.inspect_operation_for_documentation: the documentation the
\* operation carries in its document, none when it carries none.
inspect_operation_for_documentation(op) == op.documentation

\* `if not operation_documentation`: None and the empty string are false.
Undocumented(op, config) ==
    ~config.extract_documentation
        \/ inspect_operation_for_documentation(op) = NoDocumentation

\* generate_query_doc: the return type of the docstring, read first; for
\* an operation without documentation the description of the type of
\* every root field is looked up, which reads the selection set and the
\* definition of each field.  The Arguments section then lists every
\* variable; for an optional one with a default it reads
\* v.default_value.value, which a NullValueNode does not have.
generate_query_doc(definition, op, config, reg, collapse_arg) ==
    LET return_type == get_return_type_string(op, reg, collapse_arg)
    IN  IF return_type.err # NoError
          THEN [err |-> return_type.err, return_type |-> return_type]
        ELSE IF Undocumented(op, config) /\ ~op.has_selection_set
          THEN [err |-> "AttributeError", return_type |-> return_type]
        ELSE IF Undocumented(op, config)
                  /\ \E k \in 1..Len(op.selections) :
                        /\ op.selections[k].kind = "Field"
                        /\ ~HasFieldDef(op.selections[k])
          THEN [err |-> "AttributeError", return_type |-> return_type]
        ELSE IF \E k \in 1..Len(op.variable_definitions) :
                    /\ IsKwargVariable(op.variable_definitions[k])
                    /\ Truthy(op.variable_definitions[k].default_value)
                    /\ op.variable_definitions[k].default_value.kind = "NullValue"
          THEN [err |-> "AttributeError", return_type |-> return_type]
        ELSE [err |-> NoError, return_type |-> return_type]

\* ast.Call(func=Name(definition.use.split(".")[-1]), keywords=..., args=...):
\* the extra args handed on, the document, the variables and the extra
\* kwargs handed on.
PassingCall(definition, op, config, reg) ==
    [func |-> LastComponent(definition.use),
     args |-> Map(LAMBDA arg : arg.key, get_extra_args_for_onode(definition, config)),
     document |-> get_operation_class_name(op, reg),
     variables |-> Map(LAMBDA v : generate_parameter_name(v.name), op.variable_definitions),
     keywords |-> Map(LAMBDA kwarg : kwarg.key,
                      get_extra_kwargs_for_onode(definition, config))]

\* The statement a call builder returns: a Return of the call, awaited or
\* not, or a loop over the call that yields every event; with collapse the
\* attribute of the lonely selection is read off the result.
CallStatement(kind, awaited, collapse_arg, call) ==
    [kind |-> kind, awaited |-> awaited, collapsed |-> collapse_arg, call |-> call]

\* No statement: the call builder raised.
NoStatement ==
    CallStatement("None", FALSE, FALSE,
                  [func |-> <<>>, args |-> <<>>, document |-> <<>>, variables |-> <<>>,
                   keywords |-> <<>>])

\* o.selection_set.selections[0].name.value, read for the attribute of a
\* collapsed result: how the read ends.
CollapsedAttribute(op) ==
    IF ~op.has_selection_set THEN "AttributeError"
    ELSE IF op.selections = <<>> THEN "IndexError"
    ELSE IF op.selections[1].kind = "InlineFragment" THEN "AttributeError"
    ELSE NoError

\* The four call builders: the import of definition.use comes first and
\* stays when the read of the collapsed attribute raises.
genereate_async_call(definition, op, config, reg, collapse_arg) ==
    [err |-> IF collapse_arg THEN CollapsedAttribute(op) ELSE NoError,
     imports |-> register_import(reg.imports, definition.use),
     body |-> IF collapse_arg /\ CollapsedAttribute(op) # NoError
                THEN NoStatement
                ELSE CallStatement("Return", TRUE, collapse_arg,
                                   PassingCall(definition, op, config, reg))]

genereate_sync_call(definition, op, config, reg, collapse_arg) ==
    [err |-> IF collapse_arg THEN CollapsedAttribute(op) ELSE NoError,
     imports |-> register_import(reg.imports, definition.use),
     body |-> IF collapse_arg /\ CollapsedAttribute(op) # NoError
                THEN NoStatement
                ELSE CallStatement("Return", FALSE, collapse_arg,
                                   PassingCall(definition, op, config, reg))]

genereate_async_iterator(definition, op, config, reg, collapse_arg) ==
    [err |-> IF collapse_arg THEN CollapsedAttribute(op) ELSE NoError,
     imports |-> register_import(reg.imports, definition.use),
     body |-> IF collapse_arg /\ CollapsedAttribute(op) # NoError
                THEN NoStatement
                ELSE CallStatement("AsyncFor", FALSE, collapse_arg,
                                   PassingCall(definition, op, config, reg))]

genereate_sync_iterator(definition, op, config, reg, collapse_arg) ==
    [err |-> IF collapse_arg THEN CollapsedAttribute(op) ELSE NoError,
     imports |-> register_import(reg.imports, definition.use),
     body |-> IF collapse_arg /\ CollapsedAttribute(op) # NoError
                THEN NoStatement
                ELSE CallStatement("For", FALSE, collapse_arg,
                                   PassingCall(definition, op, config, reg))]

\* The registry with other imports.
WithImports(reg, registered) == [reg EXCEPT !.imports = registered]

\* ast.AsyncFunctionDef / ast.FunctionDef
AstFunctionDef(kind, name, args, body, returns) ==
    [kind |-> kind, name |-> name, args |-> args, body |-> body, returns |-> returns]

\* What generate_operation_func leaves: how the call ended, the imports of
\* the registry after it and the tree returned.
FuncRaised(e, collapse_arg, return_type, doc, reg) ==
    [outcome |-> [err |-> e, collapse |-> collapse_arg,
                  return_type |-> return_type, doc |-> doc],
     imports |-> reg.imports,
     tree |-> <<>>]

FuncReturned(collapse_arg, return_type, doc, registered, def) ==
    [outcome |-> [err |-> NoError, collapse |-> collapse_arg,
                  return_type |-> return_type, doc |-> doc],
     imports |-> registered,
     tree |-> <<def>>]

\* `if definition.is_async:`: typing.AsyncIterator is imported for an
\* operation that is a subscription, then the keywords of AsyncFunctionDef
\* in their order: the name, the parameters, the body and the returns, the
\* last two chosen by the type of the definition.
AsyncFunction(definition, op, config, reg, collapse_arg, return_type, doc) ==
    LET typed == IF op.operation = "subscription"
                   THEN register_import(reg.imports, <<N_typing, N_AsyncIterator>>)
                   ELSE reg.imports
        args == generate_parameters(definition, op, config, typed)
        call == IF definition.type # "subscription"
                  THEN genereate_async_call(definition, op, config,
                                            WithImports(reg, args.imports), collapse_arg)
                  ELSE genereate_async_iterator(definition, op, config,
                                                WithImports(reg, args.imports),
                                                collapse_arg)
    IN  IF call.err # NoError
          THEN FuncRaised(call.err, collapse_arg, return_type, doc,
                          WithImports(reg, call.imports))
        ELSE FuncReturned(collapse_arg, return_type, doc, call.imports,
            AstFunctionDef("AsyncFunctionDef", generate_async_func_name(op, config),
                           args.arguments, call.body,
                           IF definition.type # "subscription"
                             THEN return_type.value
                             ELSE <<"AsyncIterator", return_type.value>>))

\* `if not definition.is_async:`: the same with typing.Iterator.
SyncFunction(definition, op, config, reg, collapse_arg, return_type, doc) ==
    LET typed == IF op.operation = "subscription"
                   THEN register_import(reg.imports, <<N_typing, N_Iterator>>)
                   ELSE reg.imports
        args == generate_parameters(definition, op, config, typed)
        call == IF definition.type # "subscription"
                  THEN genereate_sync_call(definition, op, config,
                                           WithImports(reg, args.imports), collapse_arg)
                  ELSE genereate_sync_iterator(definition, op, config,
                                               WithImports(reg, args.imports),
                                               collapse_arg)
    IN  IF call.err # NoError
          THEN FuncRaised(call.err, collapse_arg, return_type, doc,
                          WithImports(reg, call.imports))
        ELSE FuncReturned(collapse_arg, return_type, doc, call.imports,
            AstFunctionDef("FunctionDef", generate_sync_func_name(op, config),
                           args.arguments, call.body,
                           IF definition.type # "subscription"
                             THEN return_type.value
                             ELSE <<"Iterator", return_type.value>>))

\* generate_operation_func(definition, o, client_schema, config,
\* plugin_config, registry).  `and` does not call is_collapsable when
\* collapse_lonely is false; generate_query_doc is given the same collapse
\* as get_return_type_annotation.
generate_operation_func(definition, op, config, reg) ==
    LET c == IF config.collapse_lonely
               THEN is_collapsable(op)
               ELSE [err |-> NoError, value |-> FALSE]
        return_type == get_return_type_annotation(op, reg, c.value)
        doc == generate_query_doc(definition, op, config, reg, c.value)
    IN  IF c.err # NoError
          THEN FuncRaised(c.err, FALSE, NotCalled, NotCalled, reg)
        ELSE IF return_type.err # NoError
          THEN FuncRaised(return_type.err, c.value, return_type, NotCalled, reg)
        ELSE IF doc.err # NoError
          THEN FuncRaised(doc.err, c.value, return_type, doc.return_type, reg)
        ELSE IF definition.is_async
          THEN AsyncFunction(definition, op, config, reg, c.value, return_type,
                             doc.return_type)
          ELSE SyncFunction(definition, op, config, reg, c.value, return_type,
                            doc.return_type)

NotGenerated ==
    [err |-> "not called", collapse |-> FALSE, return_type |-> NotCalled, doc |-> NotCalled]

\* The definitions of the check: for every type of operation a function
\* that calls mod.execute or mod.subscribe, and its asynchronous twin,
\* which takes the client as an extra argument.
UseOf(type, is_async) ==
    CASE type = "subscription" /\ is_async  -> <<N_mod, N_asubscribe>>
      [] type = "subscription" /\ ~is_async -> <<N_mod, N_subscribe>>
      [] type # "subscription" /\ is_async  -> <<N_mod, N_aexecute>>
      [] OTHER                              -> <<N_mod, N_execute>>

SyncDefinition(type) == FunctionDefinition(type, FALSE, <<>>, <<>>, UseOf(type, FALSE))

AsyncDefinition(type) ==
    FunctionDefinition(type, TRUE, <<Arg("client", <<N_rath, N_Rath>>)>>, <<>>,
                       UseOf(type, TRUE))

SyncDefinitions == Map(SyncDefinition, OperationTypes)

BothDefinitions ==
    FlatMap(LAMBDA type : <<SyncDefinition(type), AsyncDefinition(type)>>, OperationTypes)

PluginConfigs ==
    {FuncsPluginConfig(<<>>, global_kwargs, definitions, extract_documentation) :
        global_kwargs \in {<<>>, <<Kwarg("timeout", <<N_int>>, PyInt(3))>>},
        definitions \in {<<>>, SyncDefinitions, BothDefinitions},
        extract_documentation \in BOOLEAN}

\* The documents of the check besides those of one operation of Operations:
\* no document at all, an operation with a root field the schema does not
\* have, documented operations, documents of two operations, and
\* operations with a variable: required, with the default 0 and with the
\* default null.
Documented(op) == [op EXCEPT !.documentation = "Fetches the pet."]

WithVariables(op, variable_definitions) ==
    [op EXCEPT !.variable_definitions = variable_definitions]

VersionNode == FuncFieldNode(N_version, NoAlias, FALSE, <<>>)

PluginDocuments ==
    << <<>>,
       <<FuncOperation(N_GetPet, "query", TRUE, <<VersionNode>>)>>,
       <<FuncOperation(N_GetPet, "query", TRUE,
                       <<VersionNode, FuncFieldNode(N_bogus, NoAlias, FALSE, <<>>)>>)>>,
       <<Documented(FuncOperation(N_GetPet, "query", TRUE,
                       <<VersionNode, FuncFieldNode(N_bogus, NoAlias, FALSE, <<>>)>>))>>,
       <<Documented(FuncOperation(N_GetPet, "mutation", FALSE, <<>>))>>,
       <<Documented(FuncOperation(N_GetPet, "subscription", TRUE, <<VersionNode>>))>>,
       <<FuncOperation(N_GetPet, "query", TRUE, <<VersionNode>>),
         FuncOperation(N_GetPets, "query", TRUE, <<FuncSpreadNode(N_PetFragment)>>)>>,
       <<FuncOperation(N_GetPet, "subscription", TRUE, <<VersionNode>>),
         FuncOperation(N_GetPets, "mutation", TRUE,
                       <<FuncFieldNode(N_bogus, NoAlias, FALSE, <<>>)>>)>>,
       <<WithVariables(FuncOperation(N_GetPet, "query", TRUE, <<VersionNode>>),
                       <<VariableNode("v1", NonNullTypeNode(NamedTypeNode("Int")),
                                      NoDefault)>>)>>,
       <<WithVariables(FuncOperation(N_GetPet, "query", TRUE, <<VersionNode>>),
                       <<VariableNode("v1", NamedTypeNode("Int"), IntValueNode("0"))>>)>>,
       <<WithVariables(FuncOperation(N_GetPet, "query", TRUE, <<VersionNode>>),
                       <<VariableNode("v1", NamedTypeNode("Int"), NullValueNode)>>)>>,
       <<WithVariables(Documented(FuncOperation(N_GetPet, "subscription", TRUE,
                           <<VersionNode,
                             FuncFieldNode(N_pet, NoAlias, TRUE,
                                           <<FuncSpreadNode(N_PetFragment)>>)>>)),
                       <<VariableNode("v1", NonNullTypeNode(NamedTypeNode("Int")),
                                      NullValueNode)>>)>> >>

\* The ClassRegistry the plugin works with.
ClassRegistry ==
    [options |-> options, fragment_class_map |-> fragment_class_map, imports |-> imports]

\* The configuration of the plugin, collapse_lonely included.
PluginConfig == [collapse_lonely |-> collapse_lonely] @@ plugin_config

-----
(* Spec: one call of create_reference_registry_from_documents.              *)

NoDocument == <<>>
NoNode     == TypenameNode
NoOperation == FuncOperation(<<>>, "query", FALSE, <<>>)

\* The referencer is not running.
RefIdle ==
    /\ document = NoDocument
    /\ field = NoNode
    /\ walked_type = NoneType
    /\ registry = EmptyRegistry
    /\ registry_before = EmptyRegistry
    /\ registered_name = NoName
    /\ error = NoError
    /\ error_args = NoArgs
    /\ calls = 0
    /\ pc = "idle"

\* The funcs plugin is not running.
FuncsIdle ==
    /\ o = NoOperation
    /\ collapse = FALSE
    /\ collapse_lonely = TRUE
    /\ options = NoAffixes
    /\ fragment_class_map = {}
    /\ collapsable = [err |-> "not called", value |-> FALSE]
    /\ annotation = NotCalled
    /\ label = NotCalled
    /\ generated = NotGenerated

\* generate_parameters is not running.
NoDefinition == FunctionDefinition("query", FALSE, <<>>, <<>>, <<>>)

ParametersIdle ==
    /\ function_definition = NoDefinition
    /\ operation_definition = OperationDefinitionNode("GetPet", "query", <<>>, <<>>)
    /\ plugin_config = FuncsPluginConfig(<<>>, <<>>, <<>>, TRUE)
    /\ imports = {}
    /\ parameters = NotCalledArguments
    /\ documents = <<>>
    /\ plugin_tree = <<>>

vars == <<refVars, funcVars, paramVars>>

Init ==
    /\ \E i \in 1..Len(Documents) : document = Documents[i]
    /\ field = NoNode
    /\ walked_type = NoneType
    /\ registry = EmptyRegistry
    /\ registry_before = EmptyRegistry
    /\ registered_name = NoName
    /\ error = NoError
    /\ error_args = NoArgs
    /\ calls = 0
    /\ pc = "start"
    /\ FuncsIdle
    /\ ParametersIdle

\* The call returns the registry.
CreateRegistry ==
    /\ pc = "start"
    /\ create_reference_registry_from_documents(document).err = NoError
    /\ registry' = create_reference_registry_from_documents(document).reg
    /\ calls' = create_reference_registry_from_documents(document).calls
    /\ pc' = "returned"
    /\ UNCHANGED <<document, field, walked_type, registry_before, registered_name,
                 error, error_args, funcVars, paramVars>>

\* A raise that hands the caller the registry built so far.
CreateRegistryRaises_salvaging ==
    /\ pc = "start"
    /\ create_reference_registry_from_documents(document).err # NoError
    /\ registry' = create_reference_registry_from_documents(document).reg
    /\ error' = create_reference_registry_from_documents(document).err
    /\ error_args' = create_reference_registry_from_documents(document).args
    /\ calls' = create_reference_registry_from_documents(document).calls
    /\ pc' = "raised"
    /\ UNCHANGED <<document, field, walked_type, registry_before, registered_name,
                   funcVars, paramVars>>

\* The call raises: the registry is a local of the call and is dropped with
\* its frame.
CreateRegistryRaises ==
    /\ pc = "start"
    /\ create_reference_registry_from_documents(document).err # NoError
    /\ error' = create_reference_registry_from_documents(document).err
    /\ error_args' = create_reference_registry_from_documents(document).args
    /\ calls' = create_reference_registry_from_documents(document).calls
    /\ pc' = "raised"
    /\ UNCHANGED <<document, field, walked_type, registry_before, registered_name,
                 registry, funcVars, paramVars>>

Next == CreateRegistry \/ CreateRegistryRaises

Spec == Init /\ [][Next]_vars

-----------------------------------------------------------------------------
(* SpecWalk: one call of recurse_find_references(node, type, schema,        *)
(* registry) on a fresh registry.  The node is a field of the query root   *)
(* and the type its declared type, as create_reference_registry_from_      *)
(* documents calls it, or the node is a field without selection set and    *)
(* the type one no field of a schema can have (an input object type, bare  *)
(* or wrapped), as only a direct caller can pass it.                       *)

WalkNodes ==
    SelectSeq(FlatMap(LAMBDA k : SelectionNodes("Query", k), Upto(MaxNodes)),
              LAMBDA n : n.kind = "Field" /\ n.name # "__typename")

DeclaredType(n) == SchemaFields["Query"][n.name]

\* Types that are not output types.
UndeclarableTypes ==
    {T("PetFilter"), NonNull(T("PetFilter")), ListOf(T("PetFilter")),
     ListOf(NonNull(T("OwnerFilter")))}

InitWalk ==
    /\ document = NoDocument
    /\ \E i \in 1..Len(WalkNodes) :
          /\ field = WalkNodes[i]
          /\ \/ walked_type = DeclaredType(field)
             \/ ~field.has_selection_set /\ walked_type \in UndeclarableTypes
    /\ registry = EmptyRegistry
    /\ registry_before = EmptyRegistry
    /\ registered_name = NoName
    /\ error = NoError
    /\ error_args = NoArgs
    /\ calls = 0
    /\ pc = "start"
    /\ FuncsIdle
    /\ ParametersIdle

\* The call returns; the registry is the caller's object and keeps what the
\* call registered.
Walk ==
    /\ pc = "start"
    /\ recurse_find_references(field, walked_type, registry).err = NoError
    /\ registry' = recurse_find_references(field, walked_type, registry).reg
    /\ calls' = recurse_find_references(field, walked_type, registry).calls
    /\ pc' = "returned"
    /\ UNCHANGED <<document, field, walked_type, registry_before, registered_name,
                 error, error_args, funcVars, paramVars>>

\* The call raises; the registry keeps what was registered before the raise.
WalkRaises ==
    /\ pc = "start"
    /\ recurse_find_references(field, walked_type, registry).err # NoError
    /\ registry' = recurse_find_references(field, walked_type, registry).reg
    /\ error' = recurse_find_references(field, walked_type, registry).err
    /\ error_args' = recurse_find_references(field, walked_type, registry).args
    /\ calls' = recurse_find_references(field, walked_type, registry).calls
    /\ pc' = "raised"
    /\ UNCHANGED <<document, field, walked_type, registry_before, registered_name,
                 funcVars, paramVars>>

NextWalk == Walk \/ WalkRaises

SpecWalk == InitWalk /\ [][NextWalk]_vars

-----------------------------------------------------------------------------
(* SpecFuncs: the three functions of the funcs plugin that decide the      *)
(* collapse, each called once on the same operation, collapse argument     *)
(* and ClassRegistry.                                                       *)

InitFuncs ==
    /\ RefIdle
    /\ ParametersIdle
    /\ \E i \in 1..Len(Operations) : o = Operations[i]
    /\ collapse \in BOOLEAN
    /\ collapse_lonely = TRUE
    /\ options \in {NoAffixes, KindAffixes}
    /\ fragment_class_map \in {{}, {N_PetFragment}}
    /\ collapsable = [err |-> "not called", value |-> FALSE]
    /\ annotation = NotCalled
    /\ label = NotCalled
    /\ generated = NotGenerated

CallIsCollapsable ==
    /\ collapsable.err = "not called"
    /\ collapsable' = is_collapsable(o)
    /\ UNCHANGED <<refVars, paramVars, o, collapse, collapse_lonely, options, fragment_class_map,
                   annotation, label, generated>>

CallGetReturnTypeAnnotation ==
    /\ annotation = NotCalled
    /\ annotation' = get_return_type_annotation(o, ClassRegistry, collapse)
    /\ UNCHANGED <<refVars, paramVars, o, collapse, collapse_lonely, options, fragment_class_map,
                   collapsable, label, generated>>

CallGetReturnTypeString ==
    /\ label = NotCalled
    /\ label' = get_return_type_string(o, ClassRegistry, collapse)
    /\ UNCHANGED <<refVars, paramVars, o, collapse, collapse_lonely, options, fragment_class_map,
                   collapsable, annotation, generated>>

NextFuncs == CallIsCollapsable \/ CallGetReturnTypeAnnotation \/ CallGetReturnTypeString

SpecFuncs == InitFuncs /\ [][NextFuncs]_vars

-----------------------------------------------------------------------------
(* SpecPlugin: FuncsPlugin.generate_ast generates a function for every     *)
(* operation of the documents and every definition of its type; the plugin *)
(* that emits the fragment classes registers the class of PetFragment      *)
(* before or after that, as the plugins are ordered.                       *)

\* `for operation in operations: for definition in
\* get_definitions_for_onode(operation, self.config)`: the calls of
\* generate_operation_func in their order.
GenerateAstCalls ==
    FlatMap(LAMBDA operation :
                Map(LAMBDA definition : [operation |-> operation, definition |-> definition],
                    get_definitions_for_onode(operation, plugin_config)),
            documents)

InitPlugin ==
    /\ RefIdle
    /\ o = NoOperation
    /\ function_definition = NoDefinition
    /\ operation_definition = OperationDefinitionNode("GetPet", "query", <<>>, <<>>)
    /\ \/ /\ \E i \in 1..Len(Operations) : documents = <<Operations[i]>>
          /\ plugin_config = FuncsPluginConfig(<<>>, <<>>, SyncDefinitions, TRUE)
       \/ /\ \E i \in 1..Len(PluginDocuments) : documents = PluginDocuments[i]
          /\ plugin_config \in PluginConfigs
    /\ imports = {}
    /\ parameters = NotCalledArguments
    /\ plugin_tree = <<>>
    /\ collapse = FALSE
    /\ collapse_lonely \in BOOLEAN
    /\ options \in {NoAffixes, KindAffixes}
    /\ fragment_class_map = {}
    /\ collapsable = [err |-> "not called", value |-> FALSE]
    /\ annotation = NotCalled
    /\ label = NotCalled
    /\ generated = NotGenerated

\* The fragment class is emitted and registered, before the funcs plugin
\* runs or after it.
RegisterFragmentClass ==
    /\ N_PetFragment \notin fragment_class_map
    /\ plugin_tree = <<>> \/ Len(plugin_tree) = Len(GenerateAstCalls)
    /\ fragment_class_map' = fragment_class_map \cup {N_PetFragment}
    /\ UNCHANGED <<refVars, paramVars, o, collapse, collapse_lonely, options,
                   collapsable, annotation, label, generated>>

\* One turn of the loops of generate_ast: generate_operation_func for the
\* next operation and definition; its tree is appended.  An exception ends
\* generate_ast.
GenerateOperationFunc ==
    /\ generated.err \in {"not called", NoError}
    /\ Len(plugin_tree) < Len(GenerateAstCalls)
    /\ o' = GenerateAstCalls[Len(plugin_tree) + 1].operation
    /\ function_definition' = GenerateAstCalls[Len(plugin_tree) + 1].definition
    /\ LET r == generate_operation_func(function_definition', o', PluginConfig,
                                        ClassRegistry)
       IN  /\ generated' = r.outcome
           /\ imports' = r.imports
           /\ plugin_tree' = plugin_tree \o r.tree
           /\ parameters' = IF r.tree = <<>> THEN parameters ELSE r.tree[1].args
    /\ UNCHANGED <<refVars, operation_definition, plugin_config, documents,
                   collapse, collapse_lonely, options, fragment_class_map,
                   collapsable, annotation, label>>

NextPlugin == RegisterFragmentClass \/ GenerateOperationFunc

SpecPlugin == InitPlugin /\ [][NextPlugin]_vars

-----------------------------------------------------------------------------
(* SpecRegistry: one ReferenceRegistry and any sequence of calls of its    *)
(* register_* methods with names of the schema.                             *)

RegisteredNames == {"Pet", "Mood"}

InitRegistry ==
    /\ document = NoDocument
    /\ field = NoNode
    /\ walked_type = NoneType
    /\ registry = EmptyRegistry
    /\ registry_before = EmptyRegistry
    /\ registered_name = NoName
    /\ error = NoError
    /\ error_args = NoArgs
    /\ calls = 0
    /\ pc = "start"
    /\ FuncsIdle
    /\ ParametersIdle

\* The call of one method: what every method's call does to the state
\* besides the registry.
Called(method, type_name) ==
    /\ registry_before' = registry
    /\ registered_name' = type_name
    /\ pc' = method
    /\ UNCHANGED <<document, field, walked_type, error, error_args, calls, funcVars, paramVars>>

RegisterType ==
    \E type_name \in RegisteredNames :
        /\ registry' = register_type(registry, type_name)
        /\ Called("register_type", type_name)

RegisterFragment ==
    \E type_name \in RegisteredNames :
        /\ registry' = register_fragment(registry, type_name)
        /\ Called("register_fragment", type_name)

RegisterEnum ==
    \E type_name \in RegisteredNames :
        /\ registry' = register_enum(registry, type_name)
        /\ Called("register_enum", type_name)

RegisterInput ==
    \E type_name \in RegisteredNames :
        /\ registry' = register_input(registry, type_name)
        /\ Called("register_input", type_name)

RegisterScalar ==
    \E type_name \in RegisteredNames :
        /\ registry' = register_scalar(registry, type_name)
        /\ Called("register_scalar", type_name)

NextRegistry ==
    RegisterType \/ RegisterFragment \/ RegisterEnum \/ RegisterInput \/ RegisterScalar

SpecRegistry == InitRegistry /\ [][NextRegistry]_vars

-----------------------------------------------------------------------------
(* SpecParameters: one call of generate_parameters.                        *)

InitParameters ==
    /\ RefIdle
    /\ FuncsIdle
    /\ function_definition \in
          {FunctionDefinition("query", FALSE, extra_args, extra_kwargs,
                              <<N_mod, N_execute>>) :
              extra_args \in ExtraArgs, extra_kwargs \in ExtraKwargs}
    /\ \E i \in 1..Len(ParameterOperations) :
          operation_definition = ParameterOperations[i]
    /\ plugin_config \in
          {FuncsPluginConfig(global_args, global_kwargs, <<>>, TRUE) :
              global_args \in GlobalArgs, global_kwargs \in GlobalKwargs}
    /\ imports = {}
    /\ parameters = NotCalledArguments
    /\ documents = <<>>
    /\ plugin_tree = <<>>

GenerateParameters ==
    /\ parameters = NotCalledArguments
    /\ parameters' = generate_parameters(function_definition, operation_definition,
                                         plugin_config, imports).arguments
    /\ imports' = generate_parameters(function_definition, operation_definition,
                                      plugin_config, imports).imports
    /\ UNCHANGED <<refVars, funcVars, function_definition, operation_definition,
                   plugin_config, documents, plugin_tree>>

NextParameters == GenerateParameters

SpecParameters == InitParameters /\ [][NextParameters]_vars

RegisterMethods ==
    {"register_type", "register_fragment", "register_enum", "register_input",
     "register_scalar"}

TypeOK == pc \in {"idle", "start", "returned", "raised"} \cup RegisterMethods

-----------------------------------------------------------------------------
(* The selection walker (SpecWalk).                                         *)

\* Every entry of the registry sub is an entry of the registry reg.
Holds(reg, sub) == \A k \in DOMAIN sub : sub[k] \subseteq reg[k]

\* The fields of an inline fragment the walker can look up: FieldNodes other
\* than __typename that the type named by the type condition declares.
WalkableFields(sub_node) ==
    {j \in 1..Len(sub_node.selections) :
        /\ sub_node.selections[j].kind = "Field"
        /\ sub_node.selections[j].name # "__typename"
        /\ sub_node.type_condition # NoName
        /\ InlineFieldLookup(sub_node, sub_node.selections[j]) = NoError}

\* What the walk of field j of an inline fragment registers on its own.
WalkOfField(sub_node, j) ==
    recurse_find_references(
        sub_node.selections[j],
        SchemaFields[sub_node.type_condition][sub_node.selections[j].name],
        EmptyRegistry)

IsUnionField == NamedTypeOf(walked_type).kind = "UNION"

\* C1: once the walk of a field whose declared type is a Union has returned,
\* every fragment spread of its selection set is in `fragments` and, for
\* every inline fragment, what the walk of each of its fields other than
\* __typename registers (scalars and enums of both branches) is in the
\* registry.
C1_UnionWalksEveryChild ==
    (pc = "returned" /\ IsUnionField) =>
        \A i \in 1..Len(field.selections) :
            /\ field.selections[i].kind = "FragmentSpread"
                 => field.selections[i].name \in registry.fragments
            /\ field.selections[i].kind = "InlineFragment"
                 => \A j \in WalkableFields(field.selections[i]) :
                        Holds(registry, WalkOfField(field.selections[i], j).reg)

\* C8: once the walk of a field has returned, the object or interface type
\* whose fields were walked and the types named by the type conditions of
\* the inline fragments whose fields were walked are in `objects`.
C8_VisitedTypesAreRegistered ==
    pc = "returned" =>
        /\ NamedTypeOf(walked_type).kind \in {"OBJECT", "INTERFACE"}
             => NamedTypeOf(walked_type).name \in registry.objects
        /\ \A i \in 1..Len(field.selections) :
              (/\ field.selections[i].kind = "InlineFragment"
               /\ WalkableFields(field.selections[i]) # {})
                 => field.selections[i].type_condition \in registry.objects

-----------------------------------------------------------------------------
(* create_reference_registry_from_documents (Spec).                        *)

\* The named types a named type refers to: the type itself and, for an
\* input object, those of the types of its fields.
RECURSIVE NestedTypes(_)
NestedTypes(name) ==
    IF name \in TypeNames /\ SchemaTypes[name] = "INPUT_OBJECT"
      THEN {name} \cup UNION {NestedTypes(NamedTypeOf(SchemaFields[name][f]).name) :
                                f \in FieldNames(name)}
      ELSE {name}

\* The name under the NonNull and List wrappers of a type node.
RECURSIVE NamedTypeNodeOf(_)
NamedTypeNodeOf(t) == IF t.kind = "NamedType" THEN t.name ELSE NamedTypeNodeOf(t.type)

\* C9: after a successful create_reference_registry_from_documents, the
\* named type of every operation variable and every type it refers to
\* through the fields of input objects is in the registry.
C9_NestedInputsAreRegistered ==
    pc = "returned" =>
        \A i \in 1..Len(document) :
            \A v \in 1..Len(document[i].variable_definitions) :
                NestedTypes(NamedTypeNodeOf(document[i].variable_definitions[v].type))
                    \subseteq (registry.inputs \cup registry.enums \cup registry.scalars)

\* The selections without the __typename fields, at every depth.
RECURSIVE WithoutTypename(_)
WithoutTypename(selections) ==
    IF selections = <<>> THEN <<>>
    ELSE IF Head(selections).kind = "Field" /\ Head(selections).name = "__typename"
      THEN WithoutTypename(Tail(selections))
    ELSE <<[Head(selections) EXCEPT !.selections = WithoutTypename(@)]>>
           \o WithoutTypename(Tail(selections))

DocumentWithoutTypename(doc) ==
    [i \in 1..Len(doc) |-> [doc[i] EXCEPT !.selections = WithoutTypename(@)]]

\* C10: create_reference_registry_from_documents ends as it ends on the
\* document with every __typename selection removed: the same exception or
\* none, and on return the same registry.
C10_TypenameIsNoOp ==
    pc \in {"returned", "raised"} =>
        /\ error = create_reference_registry_from_documents(
                       DocumentWithoutTypename(document)).err
        /\ pc = "returned"
             => registry = create_reference_registry_from_documents(
                               DocumentWithoutTypename(document)).reg

-----------------------------------------------------------------------------
(* The return type functions (SpecFuncs).                                   *)

\* The class name of the operation: its name with the affix of its kind.
StyledName(op) == op.name \o options[op.operation]

\* A selection set of exactly one fragment spread.
SoleSpread(f) ==
    /\ f.has_selection_set
    /\ Len(f.selections) = 1
    /\ f.selections[1].kind = "FragmentSpread"

\* C2: called on the same operation and collapse flag, the two functions
\* end alike, take the same return statement and pass the same final type
\* name.
C2_AnnotationAndStringAgree ==
    (annotation # NotCalled /\ label # NotCalled) =>
        /\ annotation.err = label.err
        /\ annotation.branch = label.branch
        /\ annotation.final = label.final

\* C3: is_collapsable fails with an AssertionError on an operation of no
\* top-level selection, and otherwise returns whether the operation has
\* exactly one.
C3_CollapsableBySelectionCount ==
    collapsable.err # "not called" =>
        IF Len(o.selections) = 0
          THEN collapsable.err = "AssertionError"
          ELSE collapsable = [err |-> NoError, value |-> (Len(o.selections) = 1)]

\* C6: when collapsing on a sole field whose sub-selection is not exactly
\* one fragment spread, both functions name the type by the class name of
\* the operation followed by the capitalized alias of the field, or by its
\* capitalized name when it has no alias.
C6_SynthesizedNameUsesAlias ==
    (/\ collapse
     /\ o.has_selection_set
     /\ o.selections # <<>>
     /\ HasFieldDef(o.selections[1])
     /\ o.selections[1].has_selection_set
     /\ ~SoleSpread(o.selections[1])) =>
        /\ annotation # NotCalled =>
              /\ annotation.err = NoError
              /\ annotation.final =
                    StyledName(o) \o capitalize(IF o.selections[1].alias = NoAlias
                                                  THEN o.selections[1].name
                                                  ELSE o.selections[1].alias)
        /\ label # NotCalled =>
              /\ label.err = NoError
              /\ label.final =
                    StyledName(o) \o capitalize(IF o.selections[1].alias = NoAlias
                                                  THEN o.selections[1].name
                                                  ELSE o.selections[1].alias)

\* C7: when not collapsing, both functions return the class name of the
\* operation whatever its selections are, and raise nothing even for an
\* operation without selections.
C7_NotCollapsingNamesTheWrapper ==
    ~collapse =>
        /\ annotation # NotCalled
             => annotation = Returned("wrapper", StyledName(o), NameExpr(StyledName(o)))
        /\ label # NotCalled
             => label = Returned("wrapper", StyledName(o), StyledName(o))

\* Both functions have returned the wrapper of a mutation that has no
\* selection set.
C7_Witness ==
    /\ ~collapse
    /\ o.operation = "mutation"
    /\ ~o.has_selection_set
    /\ options = KindAffixes
    /\ annotation.branch = "wrapper"
    /\ label.branch = "wrapper"

-----------------------------------------------------------------------------
(* generate_operation_func (SpecPlugin).                                    *)

\* The function was generated with a collapsed return type.
Collapsed == generated.err = NoError /\ generated.return_type.branch # "wrapper"

\* C4 as stated: an operation is generated collapsed only if it has exactly
\* one top-level selection and that selection has no sub-selection or a
\* sub-selection of exactly one fragment spread.
C4_CollapsedOnlyWithoutNestedFields ==
    Collapsed =>
        /\ Len(o.selections) = 1
        /\ \/ ~o.selections[1].has_selection_set
           \/ SoleSpread(o.selections[1])

\* C4, amended: a generated operation is collapsed exactly when
\* collapse_lonely is set and the operation has exactly one top-level
\* selection; the sub-selection of that selection does not count.  The
\* return type and the body of the generated function collapse together.
C4_CollapsedIffLonelySelection ==
    generated.err = NoError =>
        /\ generated.return_type.branch # "wrapper"
              <=> (collapse_lonely /\ Len(o.selections) = 1)
        /\ plugin_tree[Len(plugin_tree)].body.collapsed
              <=> (collapse_lonely /\ Len(o.selections) = 1)

\* An operation whose sole field selects plain nested fields was generated
\* collapsed, to the synthesized nested type.
C4_Witness ==
    /\ Collapsed
    /\ plugin_tree[Len(plugin_tree)].body.collapsed
    /\ Len(o.selections) = 1
    /\ o.selections[1].has_selection_set
    /\ ~SoleSpread(o.selections[1])
    /\ generated.return_type.branch = "nested"

\* C5: an operation collapsed on a sole field whose selection set is exactly
\* one fragment spread is generated, with the class of the fragment as the
\* final type of the declared type of the field, whether the class of the
\* fragment was registered before the operation was generated or not.
C5_SoleFragmentSpreadResolves ==
    (/\ generated # NotGenerated
     /\ collapse_lonely
     /\ Len(o.selections) = 1
     /\ HasFieldDef(o.selections[1])
     /\ SoleSpread(o.selections[1])) =>
        /\ generated.err = NoError
        /\ generated.return_type.branch = "fragment"
        /\ generated.return_type.final =
              style_fragment_class(o.selections[1].selections[1].name, ClassRegistry)
        /\ generated.return_type.value =
              recurse_outputtype_annotation(
                  RootFieldTypes[o.selections[1].name],
                  style_fragment_class(o.selections[1].selections[1].name, ClassRegistry),
                  TRUE)

-----------------------------------------------------------------------------
(* Types the walker has no case for (SpecWalk).                             *)

HasNoCase == NamedTypeOf(walked_type).kind = "INPUT_OBJECT"

\* C11: once the walk of a field with a type the walker has no case for (an
\* input object type, bare or wrapped) has ended, it has raised the "Unknown
\* Type" exception and the field's selection node is among the arguments of
\* the exception.
C11_UnknownTypeCarriesNode ==
    pc # "start" /\ HasNoCase =>
        /\ pc = "raised"
        /\ error = "UnknownType"
        /\ field \in Range(error_args)

\* What the code does raise: the message, the class of the type and the type.
C11_UnknownTypeCarriesType ==
    pc # "start" /\ HasNoCase =>
        /\ pc = "raised"
        /\ error = "UnknownType"
        /\ error_args = <<PyStr("Unknown Type"), PyType(NamedTypeOf(walked_type)),
                          NamedTypeOf(walked_type)>>

-----------------------------------------------------------------------------
(* The types of variables (Spec).                                           *)

\* The variable definitions of a document, in the order of the document.
RECURSIVE VariablesOf(_)
VariablesOf(doc) ==
    IF doc = <<>> THEN <<>>
    ELSE Head(doc).variable_definitions \o VariablesOf(Tail(doc))

DocumentWithoutVariables(doc) ==
    [i \in 1..Len(doc) |-> [doc[i] EXCEPT !.variable_definitions = <<>>]]

\* The set of the registry a named type of the schema belongs to.
MatchingSet(name) ==
    CASE get_type(name).kind = "SCALAR"       -> "scalars"
      [] get_type(name).kind = "ENUM"         -> "enums"
      [] get_type(name).kind = "INPUT_OBJECT" -> "inputs"
      [] OTHER                                -> "none"

\* The registry with the names of the variable types from position i on,
\* each in its matching set.
RECURSIVE WithNamedTypes(_, _, _)
WithNamedTypes(reg, variables, i) ==
    IF i > Len(variables) THEN reg
    ELSE WithNamedTypes(
             [k \in DOMAIN reg |->
                 IF k = MatchingSet(NamedTypeNodeOf(variables[i].type))
                   THEN reg[k] \cup {NamedTypeNodeOf(variables[i].type)}
                   ELSE reg[k]],
             variables, i + 1)

RECURSIVE Wrappers(_)
Wrappers(t) == IF t.kind = "NamedType" THEN 0 ELSE 1 + Wrappers(t.type)

\* C12: after a successful create_reference_registry_from_documents the
\* registry is the registry of the document without its variables plus, for
\* every variable, the name under the NonNull and List wrappers of its type,
\* in the set of its kind and in no other set; and on any registry
\* recurse_type_annotation gives the type node of a variable the outcome it
\* gives the bare named type node.
C12_VariableTypeRegistersNamedType ==
    pc = "returned" =>
        /\ registry =
             WithNamedTypes(
                 create_reference_registry_from_documents(
                     DocumentWithoutVariables(document)).reg,
                 VariablesOf(document), 1)
        /\ \A v \in Range(VariablesOf(document)) :
             \A reg \in {EmptyRegistry, registry} :
                /\ recurse_type_annotation(v.type, reg)
                     = recurse_type_annotation(
                           NamedTypeNode(NamedTypeNodeOf(v.type)), reg)
                /\ recurse_type_annotation(v.type, reg)
                     = Ok(WithNamedTypes(reg, <<v>>, 1))

\* A returned run over a variable whose type is a named type under two
\* wrappers, a list among them.
C12_Witness ==
    /\ pc = "returned"
    /\ \E v \in Range(VariablesOf(document)) :
          /\ Wrappers(v.type) = 2
          /\ v.type.kind = "NonNullType"
          /\ v.type.type.kind = "ListType"
          /\ NamedTypeNodeOf(v.type) \in registry.inputs

\* A variable whose named type is no scalar, enum or input object of the
\* schema: an object, interface or union type, or a name the schema lacks.
IsUnknownSubtype(v) == MatchingSet(NamedTypeNodeOf(v.type)) = "none"

UnknownSubtypes(doc) == SelectSeq(VariablesOf(doc), IsUnknownSubtype)

\* The arguments of the exception for the named type node under the
\* wrappers of a variable's type.
UnknownSubtypeArgs(v) ==
    <<PyStr("Unknown Subtype"), PyType(NamedTypeNode(NamedTypeNodeOf(v.type))),
      NamedTypeNode(NamedTypeNodeOf(v.type))>>

\* C13: a create_reference_registry_from_documents over a document with a
\* variable whose named type is no scalar, enum or input object never
\* returns; where nothing but the variables can fail, it raises "Unknown
\* Subtype" with the named type node of the first such variable; and on any
\* registry recurse_type_annotation raises that exception for such a
\* variable and leaves the registry as it was.
C13_UnknownSubtypePropagates ==
    pc # "start" /\ UnknownSubtypes(document) # <<>> =>
        /\ pc = "raised"
        /\ create_reference_registry_from_documents(
               DocumentWithoutVariables(document)).err = NoError
             => /\ error = "UnknownSubtype"
                /\ error_args = UnknownSubtypeArgs(UnknownSubtypes(document)[1])
        /\ \A v \in Range(UnknownSubtypes(document)) :
             \A reg \in {EmptyRegistry,
                         create_reference_registry_from_documents(
                             DocumentWithoutVariables(document)).reg} :
                /\ recurse_type_annotation(v.type, reg).err = "UnknownSubtype"
                /\ recurse_type_annotation(v.type, reg).args = UnknownSubtypeArgs(v)
                /\ recurse_type_annotation(v.type, reg).reg = reg

\* A run that raised on a wrapped variable type naming an object type, after
\* a variable that registers a name.
C13_Witness ==
    /\ pc = "raised"
    /\ error = "UnknownSubtype"
    /\ error_args[3].name = "Pet"
    /\ Len(VariablesOf(document)) = 2
    /\ ~IsUnknownSubtype(VariablesOf(document)[1])
    /\ Wrappers(VariablesOf(document)[2].type) = 1

-----------------------------------------------------------------------------
(* Termination of the walker (SpecWalk).                                    *)

RECURSIVE Activations(_, _)
RECURSIVE FieldActivations(_, _, _)
RECURSIVE ChildActivations(_, _, _)

\* The activations the fields from position i on of a selection set can
\* take, each walked against the field the type named type_name declares.
FieldActivations(selections, type_name, i) ==
    IF i > Len(selections) THEN 0
    ELSE (IF /\ selections[i].kind = "Field"
             /\ selections[i].name # "__typename"
             /\ selections[i].name \in FieldNames(type_name)
            THEN Activations(selections[i],
                             SchemaFields[type_name][selections[i].name])
            ELSE 0)
         + FieldActivations(selections, type_name, i + 1)

\* The activations the children from position i on can take: a field one
\* level down, the fields of an inline fragment one level down, a fragment
\* spread none.
ChildActivations(selections, type_name, i) ==
    IF i > Len(selections) THEN 0
    ELSE (CASE selections[i].kind = "Field" ->
                  FieldActivations(<<selections[i]>>, type_name, 1)
            [] selections[i].kind = "InlineFragment" ->
                  FieldActivations(selections[i].selections,
                                   selections[i].type_condition, 1)
            [] OTHER -> 0)
         + ChildActivations(selections, type_name, i + 1)

\* One activation for the node and each wrapper of its type, and those of
\* the level below; the direct fields of a Union selection are not walked.
Activations(node, graphql_type) ==
    CASE graphql_type.kind \in {"NonNull", "List"} ->
            1 + Activations(node, graphql_type.of_type)
      [] graphql_type.kind \in {"OBJECT", "INTERFACE"} ->
            1 + ChildActivations(node.selections, graphql_type.name, 1)
      [] graphql_type.kind = "UNION" ->
            1 + ChildActivations(node.selections, NoName, 1)
      [] OTHER -> 1

\* C14: a call of recurse_find_references ends after at most one activation
\* for each wrapper of a type and each field of the selection tree, a
\* fragment spread taking none; a walk that returns from a field that is
\* not of a Union type has made exactly these activations.
C14_WalkIsBoundedByTheTree ==
    pc \in {"returned", "raised"} =>
        /\ calls >= 1
        /\ calls <= Activations(field, walked_type)
        /\ pc = "returned" /\ ~IsUnionField
             => calls = Activations(field, walked_type)

\* A returned walk through a wrapper, a fragment spread and a field of an
\* inline fragment.
C14_Witness ==
    /\ pc = "returned"
    /\ walked_type.kind = "NonNull"
    /\ \E i, j \in 1..Len(field.selections) :
          /\ field.selections[i].kind = "FragmentSpread"
          /\ field.selections[i].name \in registry.fragments
          /\ field.selections[j].kind = "InlineFragment"
          /\ WalkableFields(field.selections[j]) # {}
    /\ calls >= 3

-----------------------------------------------------------------------------
(* The children of an Object or Interface selection (SpecWalk).             *)

JoinRegistries(a, b) == [k \in DOMAIN a |-> a[k] \cup b[k]]

\* What the walkable fields from position j on of an inline fragment
\* register, each walked on its own.
RECURSIVE InlineRegistry(_, _)
InlineRegistry(sub_node, j) ==
    IF j > Len(sub_node.selections) THEN EmptyRegistry
    ELSE JoinRegistries(
             IF j \in WalkableFields(sub_node)
               THEN WalkOfField(sub_node, j).reg ELSE EmptyRegistry,
             InlineRegistry(sub_node, j + 1))

\* What one child of a selection set against the type named type_name
\* registers on its own.
ChildRegistry(sub_node, type_name) ==
    CASE sub_node.kind = "Field" ->
            IF sub_node.name # "__typename" /\ sub_node.name \in FieldNames(type_name)
              THEN recurse_find_references(
                       sub_node, SchemaFields[type_name][sub_node.name],
                       EmptyRegistry).reg
              ELSE EmptyRegistry
      [] sub_node.kind = "FragmentSpread" ->
            [EmptyRegistry EXCEPT !.fragments = {sub_node.name}]
      [] sub_node.kind = "InlineFragment" -> InlineRegistry(sub_node, 1)

RECURSIVE ChildrenRegistry(_, _, _)
ChildrenRegistry(selections, type_name, i) ==
    IF i > Len(selections) THEN EmptyRegistry
    ELSE JoinRegistries(ChildRegistry(selections[i], type_name),
                        ChildrenRegistry(selections, type_name, i + 1))

IsObjectOrInterfaceField == NamedTypeOf(walked_type).kind \in {"OBJECT", "INTERFACE"}

\* C15: once the walk of a field whose declared type is an Object or an
\* Interface has returned, the registry is what its children register each
\* on its own, whatever their positions: the walk of every direct field but
\* __typename against the field the type declares, the name of every
\* fragment spread in `fragments`, and the walk of every field but
\* __typename of every inline fragment against the type its type condition
\* names.  The Object branch and the Interface branch end alike on the same
\* node and type.
C15_ObjectAndInterfaceWalkEveryChild ==
    pc \in {"returned", "raised"} /\ IsObjectOrInterfaceField =>
        /\ pc = "returned"
             => registry = ChildrenRegistry(field.selections,
                                            NamedTypeOf(walked_type).name, 1)
        /\ ObjectSelections(field, NamedTypeOf(walked_type), 1, EmptyRegistry)
             = InterfaceSelections(field, NamedTypeOf(walked_type), 1, EmptyRegistry)

\* A returned walk of an Interface field with an inline fragment before a
\* fragment spread before a direct field.
C15_Witness ==
    /\ pc = "returned"
    /\ NamedTypeOf(walked_type).kind = "INTERFACE"
    /\ Len(field.selections) = 3
    /\ field.selections[1].kind = "InlineFragment"
    /\ WalkableFields(field.selections[1]) # {}
    /\ field.selections[2].kind = "FragmentSpread"
    /\ field.selections[3].kind = "Field"
    /\ field.selections[3].name # "__typename"
    /\ registry.enums # {}
    /\ registry.scalars # {}
    /\ registry.fragments # {}

-----------------------------------------------------------------------------
(* The registry's methods (SpecRegistry).                                   *)

\* The set each method adds to.
OwnSet ==
    [ register_type     |-> "objects",
      register_fragment |-> "fragments",
      register_enum     |-> "enums",
      register_input    |-> "inputs",
      register_scalar   |-> "scalars" ]

MethodCalled == pc \in RegisterMethods

\* C16: after any sequence of register_* calls, a call with a name that was
\* already in the method's set leaves the registry as it was, and after
\* every call the name is an entry of the set, the set being a set of
\* distinct names.
C16_RegistrationIsIdempotent ==
    MethodCalled =>
        /\ registered_name \in registry[OwnSet[pc]]
        /\ registered_name \in registry_before[OwnSet[pc]]
             => registry = registry_before
        /\ Cardinality(registry[OwnSet[pc]])
             = Cardinality(registry_before[OwnSet[pc]] \ {registered_name}) + 1

\* A name registered once more through the method that registered it.
C16_Witness ==
    /\ MethodCalled
    /\ registered_name \in registry_before[OwnSet[pc]]
    /\ registry_before # EmptyRegistry

\* C18: a register_* call adds the name to the method's own set and leaves
\* every other set as it was; every method can be called in every state of
\* the registry and raises nothing; `operations` is empty in every state.
C18_RegisterChangesOnlyItsOwnSet ==
    /\ registry.operations = {}
    /\ error = NoError
    /\ ENABLED RegisterType
    /\ ENABLED RegisterFragment
    /\ ENABLED RegisterEnum
    /\ ENABLED RegisterInput
    /\ ENABLED RegisterScalar
    /\ MethodCalled =>
          /\ registry[OwnSet[pc]] = registry_before[OwnSet[pc]] \cup {registered_name}
          /\ \A k \in DOMAIN registry \ {OwnSet[pc]} : registry[k] = registry_before[k]

\* A call that added a name to its own set of a registry whose other sets
\* were not empty.
C18_Witness ==
    /\ pc = "register_enum"
    /\ registered_name \notin registry_before.enums
    /\ registry_before.scalars # {}
    /\ registry_before.objects # {}
    /\ registry_before.fragments # {}
    /\ registry_before.inputs # {}

-----------------------------------------------------------------------------
(* A run that fails (Spec).                                                 *)

\* The definitions in the order the run processes them: the fragments, then
\* the operations.
ProcessingOrder(doc) ==
    DictValues(doc, "FragmentDefinition") \o DictValues(doc, "OperationDefinition")

Fails(doc) == create_reference_registry_from_documents(doc).err # NoError

\* The position in the processing order of the first definition the run
\* fails on.
FirstFailing(doc) ==
    CHOOSE k \in 1..Len(doc) :
        /\ Fails(SubSeq(ProcessingOrder(doc), 1, k))
        /\ \A h \in 1..(k - 1) : ~Fails(SubSeq(ProcessingOrder(doc), 1, h))

UpToFirstFailing(doc) == SubSeq(ProcessingOrder(doc), 1, FirstFailing(doc))

\* C17: once create_reference_registry_from_documents has raised, the caller
\* holds no registry entry, and the run has stopped at the first definition
\* that fails: the exception, its arguments and the number of walker
\* activations are those of the run over the definitions up to that one,
\* and when the type of a variable fails no selection of its operation has
\* been walked.
C17_FailedRunExposesNoRegistry ==
    pc = "raised" =>
        /\ registry = EmptyRegistry
        /\ error # NoError
        /\ error = create_reference_registry_from_documents(
                       UpToFirstFailing(document)).err
        /\ error_args = create_reference_registry_from_documents(
                            UpToFirstFailing(document)).args
        /\ calls = create_reference_registry_from_documents(
                       UpToFirstFailing(document)).calls
        /\ error = "UnknownSubtype"
             => calls = create_reference_registry_from_documents(
                            SubSeq(ProcessingOrder(document), 1,
                                   FirstFailing(document) - 1)).calls

\* A run that raised "Unknown Subtype" on a variable after the walker had
\* registered entries.
C17_Witness ==
    /\ pc = "raised"
    /\ error = "UnknownSubtype"
    /\ calls >= 1
    /\ create_reference_registry_from_documents(document).reg # EmptyRegistry

-----------------------------------------------------------------------------
(* The order of definitions and selections (Spec).                          *)

\* The selections in the opposite order, at every depth.
RECURSIVE ReverseSelections(_)
ReverseSelections(selections) ==
    [i \in 1..Len(selections) |->
        [selections[Len(selections) + 1 - i]
            EXCEPT !.selections = ReverseSelections(@)]]

\* The document with its definitions, the variables of each operation and
\* the selections of every selection set in the opposite order.
ReverseDocument(doc) ==
    [i \in 1..Len(doc) |->
        [doc[Len(doc) + 1 - i]
            EXCEPT !.selections = ReverseSelections(@),
                   !.variable_definitions =
                       [j \in 1..Len(@) |-> @[Len(@) + 1 - j]]]]

\* A selection of a field the schema declares with a Union type, at any depth.
RECURSIVE SelectsUnion(_)
SelectsUnion(selections) ==
    \E i \in 1..Len(selections) :
        \/ /\ selections[i].kind = "Field"
           /\ selections[i].name = "search"
        \/ SelectsUnion(selections[i].selections)

\* C19: the registry a successful create_reference_registry_from_documents
\* returns is the registry it returns for the document with the definitions
\* and the selections of every selection set in the opposite order.
C19_RegistryIsOrderIndependent ==
    /\ pc = "returned"
    /\ create_reference_registry_from_documents(ReverseDocument(document)).err = NoError
    => registry = create_reference_registry_from_documents(
                      ReverseDocument(document)).reg

\* The same for the documents that select no field of a Union type.
C19_OrderIndependentWithoutUnion ==
    /\ pc = "returned"
    /\ \A i \in 1..Len(document) : ~SelectsUnion(document[i].selections)
    => /\ create_reference_registry_from_documents(
              ReverseDocument(document)).err = NoError
       /\ registry = create_reference_registry_from_documents(
                         ReverseDocument(document)).reg

-----------------------------------------------------------------------------
(* The top level of a definition (Spec).                                    *)

IsField(sub_node) == sub_node.kind = "Field"

\* The document with the fragment spreads and inline fragments removed from
\* the top-level selection set of every definition.
TopLevelFieldsOnly(doc) ==
    [i \in 1..Len(doc) |-> [doc[i] EXCEPT !.selections = SelectSeq(@, IsField)]]

\* The name of the type a definition selects against.
TopType(definition) ==
    IF definition.kind = "FragmentDefinition" THEN definition.type_condition
    ELSE get_root_type(definition.operation).name

\* The top-level fields of a definition whose declared type is an Object or
\* an Interface.
ObjectFields(definition) ==
    {sub_node \in Range(definition.selections) :
        /\ sub_node.kind = "Field"
        /\ sub_node.name \in FieldNames(TopType(definition))
        /\ NamedTypeOf(SchemaFields[TopType(definition)][sub_node.name]).kind
             \in {"OBJECT", "INTERFACE"}}

TopLevelSpreads(doc) ==
    {sub_node.name : sub_node \in
        {sub_node \in UNION {Range(doc[i].selections) : i \in 1..Len(doc)} :
            sub_node.kind = "FragmentSpread"}}

NestedSpreads(doc) ==
    UNION {{sub_sub_node.name : sub_sub_node \in
               {sub_sub_node \in Range(sub_node.selections) :
                   sub_sub_node.kind = "FragmentSpread"}} :
           sub_node \in UNION {ObjectFields(doc[i]) : i \in 1..Len(doc)}}

\* C20: create_reference_registry_from_documents ends as it ends on the
\* document without the fragment spreads and inline fragments of the
\* top-level selection sets, with the same registry on return; and on
\* return the fragment spreads and the fields of the inline fragments one
\* level down, under a field of an Object or Interface type, are registered.
C20_TopLevelWalksOnlyFields ==
    pc \in {"returned", "raised"} =>
        /\ error = create_reference_registry_from_documents(
                       TopLevelFieldsOnly(document)).err
        /\ pc = "returned" =>
             /\ registry = create_reference_registry_from_documents(
                               TopLevelFieldsOnly(document)).reg
             /\ NestedSpreads(document) \subseteq registry.fragments
             /\ \A i \in 1..Len(document) :
                  \A sub_node \in ObjectFields(document[i]) :
                     \A k \in 1..Len(sub_node.selections) :
                        sub_node.selections[k].kind = "InlineFragment" =>
                           \A j \in WalkableFields(sub_node.selections[k]) :
                              Holds(registry, WalkOfField(sub_node.selections[k], j).reg)

\* A returned run over a top-level fragment spread that is not registered
\* beside a fragment spread one level down that is registered.
C20_Witness ==
    /\ pc = "returned"
    /\ TopLevelSpreads(document) \ registry.fragments # {}
    /\ NestedSpreads(document) # {}
    /\ NestedSpreads(document) \subseteq registry.fragments

\* A returned run over a top-level inline fragment whose field is not walked.
C20_InlineWitness ==
    /\ pc = "returned"
    /\ registry.scalars = {}
    /\ \E i \in 1..Len(document) :
          \E k \in 1..Len(document[i].selections) :
             /\ document[i].selections[k].kind = "InlineFragment"
             /\ WalkableFields(document[i].selections[k]) # {}

-----------------------------------------------------------------------------
(* The generated signature (SpecParameters).                                *)

ParametersGenerated == parameters # NotCalledArguments

\* A variable that must be passed: its type is NonNull and it declares no
\* default value.
IsRequired(v) == v.type.kind = "NonNullType" /\ v.default_value = NoDefault

IsOptional(v) == ~IsRequired(v)

RequiredVariables == SelectSeq(operation_definition.variable_definitions, IsRequired)

OptionalVariables == SelectSeq(operation_definition.variable_definitions, IsOptional)

AllExtraArgs == plugin_config.global_args \o function_definition.extra_args

AllExtraKwargs == plugin_config.global_kwargs \o function_definition.extra_kwargs

\* The parameters of a Python signature without a default: the defaults
\* belong to the last parameters.
WithoutDefault == Len(parameters.args) - Len(parameters.defaults)

\* The positions of the signature that hold a variable.
PositionsOf(v) ==
    {q \in 1..Len(parameters.args) :
        parameters.args[q].arg = generate_parameter_name(v.name)}

PositionOf(v) == CHOOSE q \in PositionsOf(v) : TRUE

\* The value a variable declares as default, None when it declares none.
DeclaredDefault(v) ==
    CASE v.default_value = IntValueNode("0") -> PyInt(0)
      [] OTHER                               -> PyNone

ParameterNames == [q \in 1..Len(parameters.args) |-> parameters.args[q].arg]

KeyOf(extra) == extra.key

ParameterNameOf(v) == generate_parameter_name(v.name)

\* C21: in the signature generate_parameters returns every variable of the
\* operation holds exactly one position; a variable whose type is NonNull
\* and that declares no default is a parameter without default, every other
\* variable a parameter whose default is its declared default, else None;
\* the parameters are the extra args, the required variables, the optional
\* variables and the extra kwargs in this order; and the defaults are as
\* many as the optional variables and the extra kwargs, so that the
\* parameters without default are the extra args and the required
\* variables, ahead of every parameter with a default.
C21_SignatureOrdersParameters ==
    ParametersGenerated =>
        /\ \A v \in Range(operation_definition.variable_definitions) :
              /\ Cardinality(PositionsOf(v)) = 1
              /\ IsRequired(v) <=> PositionOf(v) <= WithoutDefault
              /\ IsOptional(v) =>
                    parameters.defaults[PositionOf(v) - WithoutDefault]
                        = AstConstant(DeclaredDefault(v))
        /\ ParameterNames = Map(KeyOf, AllExtraArgs)
                              \o Map(ParameterNameOf, RequiredVariables)
                              \o Map(ParameterNameOf, OptionalVariables)
                              \o Map(KeyOf, AllExtraKwargs)
        /\ Len(parameters.defaults) = Len(OptionalVariables) + Len(AllExtraKwargs)
        /\ WithoutDefault = Len(AllExtraArgs) + Len(RequiredVariables)

\* A signature of extra args and extra kwargs around a variable that
\* declares a default under a NonNull type, ahead of a required variable in
\* the operation.
C21_Witness ==
    /\ ParametersGenerated
    /\ Len(AllExtraArgs) = 2
    /\ Len(AllExtraKwargs) = 2
    /\ Len(operation_definition.variable_definitions) = 2
    /\ operation_definition.variable_definitions[1].type.kind = "NonNullType"
    /\ operation_definition.variable_definitions[1].default_value = IntValueNode("0")
    /\ IsRequired(operation_definition.variable_definitions[2])
    /\ parameters.defaults[1] = AstConstant(PyInt(0))

====
